---- MODULE Spec2Model ----
(***************************************************************************)
(* MTWallet backend: the SMS ingestion handler (POST /api/sms/ingest), the *)
(* Axio CSV import handler (POST /api/import/axio), the currency           *)
(* conversion service with its process-wide rate cache, and the Supabase   *)
(* tables they write (transactions, sync_runs).                            *)
(*                                                                         *)
(* A handler is an async function: the node event loop runs it without     *)
(* interruption from one await to the next.  Each action below is one such *)
(* segment, taken when the awaited call (a database query, the model call, *)
(* the rate fetch) completes; the outcome of the awaited call is the       *)
(* action's nondeterministic input.                                        *)
(*                                                                         *)
(* Money amounts are JavaScript numbers in the source; here they are       *)
(* integers counting thousandths of a currency unit, so that an amount    *)
(* can have more decimals than the two the conversion rounds to.  Exchange *)
(* rates are fractions <<numerator, denominator>>.  An optional (undefined *)
(* / null) value is None, a present one Some(v).                           *)
(***************************************************************************)
EXTENDS Integers, Sequences, FiniteSets, Bags, TLC

None == <<>>
Some(v) == <<v>>
IsSome(o) == o # None
Val(o) == o[1]
\* JavaScript  a ?? b  and  a || b  on an optional value
OrElse(o, d) == IF IsSome(o) THEN Val(o) ELSE d
\* o || d on an optional string: null, undefined and "" give d
OrIfFalsy(o, d) == IF IsSome(o) /\ Val(o) # "" THEN Val(o) ELSE d

(***************************************************************************)
(* Bounds of the model                                                     *)
(***************************************************************************)
\* longest message batch (and longest CSV row list) of one request
MaxBatch == 2
\* longest array the model call returns
MaxParsed == 2

\* the request slots: each is one HTTP request handled by the server
Calls == {1, 2}

(***************************************************************************)
(* Strings: TLC strings are atomic, so the case conversions the code uses  *)
(* are tabulated on the strings that occur in the model.                   *)
(***************************************************************************)
toUpperCase(s) ==
    CASE s = "inr" -> "INR"
      [] s = "Inr" -> "INR"
      [] s = "usd" -> "USD"
      [] s = "xyz" -> "XYZ"
      [] s = "cr" -> "CR"
      [] s = "dr" -> "DR"
      [] OTHER -> s

toLowerCase(s) ==
    CASE s = "FOOD" -> "food"
      [] s = "Misc" -> "misc"
      [] s = "Yes" -> "yes"
      [] s = "YES" -> "yes"
      [] s = "No" -> "no"
      [] OTHER -> s

trim(s) ==
    CASE s = " cr " -> "cr"
      [] s = " Yes" -> "Yes"
      [] s = " " -> ""
      [] s = " Swiggy " -> "Swiggy"
      [] OTHER -> s

(***************************************************************************)
(* Database contents that the handlers only read                           *)
(***************************************************************************)
\* profiles table: api_key -> user_id
Profiles == [k \in {"k1", "k2"} |-> IF k = "k1" THEN "u1" ELSE "u2"]

\* categories table rows visible to a user
Vocabulary == << [id |-> "cat-food", slug |-> "food"],
                 [id |-> "cat-misc", slug |-> "Misc"] >>

(***************************************************************************)
(* services/currency.ts                                                    *)
(***************************************************************************)
CACHE_DURATION_MS == 60 * 60 * 1000

\* Fallback rates in case the API fails: INR per 1 unit of the currency
FALLBACK_RATES ==
    [c \in {"INR", "USD", "EUR", "GBP", "AED", "SGD", "JPY", "CAD", "AUD"} |->
        CASE c = "INR" -> <<1, 1>>
          [] c = "USD" -> <<83, 1>>
          [] c = "EUR" -> <<90, 1>>
          [] c = "GBP" -> <<105, 1>>
          [] c = "AED" -> <<226, 10>>
          [] c = "SGD" -> <<62, 1>>
          [] c = "JPY" -> <<55, 100>>
          [] c = "CAD" -> <<61, 1>>
          [] c = "AUD" -> <<54, 1>>]

\* What the rate API can answer with: data.rates, "1 INR = X foreign", as a
\* set of entries; an entry is a number n/d or something that is not a number.
Entry(c, n, d) == [code |-> c, isNumber |-> TRUE, n |-> n, d |-> d]
Junk(c) == [code |-> c, isNumber |-> FALSE, n |-> 0, d |-> 1]
ApiBodies ==
    { {Entry("INR", 1, 1), Entry("USD", 3, 250), Entry("IDR", 190, 1)},
      {Entry("INR", 1, 1), Entry("USD", 0, 1), Junk("EUR")} }

\* The rate fetch either fails (network error, non-2xx status) or answers.
FetchResults ==
    {[ok |-> FALSE, rates |-> {}]} \cup {[ok |-> TRUE, rates |-> b] : b \in ApiBodies}

\* fetchExchangeRates with the entries stored as the API gives them
fetchExchangeRatesAsGiven(result) ==
    IF ~result.ok
    THEN FALLBACK_RATES
    ELSE LET kept == {e \in result.rates : e.isNumber /\ e.n > 0}
             codes == {e.code : e \in kept}
         IN  [c \in {"INR"} \cup codes |->
                 IF c \in codes
                 THEN LET e == CHOOSE e \in kept : e.code = c IN <<e.n, e.d>>
                 ELSE <<1, 1>>]

\* fetchExchangeRates: the table the function resolves to
fetchExchangeRates(result) ==
    IF ~result.ok
    THEN FALLBACK_RATES
    ELSE LET kept == {e \in result.rates : e.isNumber /\ e.n > 0}
             codes == {e.code : e \in kept}
         IN  [c \in {"INR"} \cup codes |->
                 IF c \in codes
                 THEN LET e == CHOOSE e \in kept : e.code = c IN <<e.d, e.n>>
                 ELSE <<1, 1>>]

\* getExchangeRates: is the cached table served (no fetch)?
CacheFresh(cached, stamp, t) == IsSome(cached) /\ t - stamp < CACHE_DURATION_MS

\* rates[currencyUpper] || FALLBACK_RATES[currencyUpper]
RateFor(rates, cu) ==
    IF cu \in DOMAIN rates /\ rates[cu][1] # 0 THEN Some(rates[cu])
    ELSE IF cu \in DOMAIN FALLBACK_RATES /\ FALLBACK_RATES[cu][1] # 0
         THEN Some(FALLBACK_RATES[cu])
         ELSE None

\* Math.round(x) for x = n/d >= 0: the nearest integer, halves upwards
MathRound(n, d) == (2 * n + d) \div (2 * d)

\* isForeignCurrency with === on the code as given
isForeignCurrencyExact(currency) ==
    IF ~IsSome(currency) \/ Val(currency) = "" THEN FALSE
    ELSE Val(currency) # "INR"

\* isForeignCurrency
isForeignCurrency(currency) ==
    IF ~IsSome(currency) \/ Val(currency) = "" THEN FALSE
    ELSE toUpperCase(Val(currency)) # "INR"

\* convertToINR, given the table getExchangeRates resolved to.
\* Math.round(amount * rate * 100) / 100 on an amount of a thousandths and a
\* rate n/d is Math.round(a * n / (10 * d)) hundredths.
convertToINR(amount, currency, rates) ==
    LET currencyUpper == toUpperCase(currency)
        rate == RateFor(rates, currencyUpper)
    IN  IF currencyUpper = "INR" THEN [amountINR |-> amount, rate |-> <<1, 1>>]
        ELSE IF ~IsSome(rate) THEN [amountINR |-> amount, rate |-> <<1, 1>>]
        ELSE [amountINR |-> 10 * MathRound(amount * Val(rate)[1], 10 * Val(rate)[2]),
              rate |-> Val(rate)]

(***************************************************************************)
(* services/supabase.ts                                                    *)
(***************************************************************************)
\* getUserByApiKey: the profile row, or null when there is none or the
\* query failed
getUserByApiKey(apiKey, dbOk) ==
    IF dbOk /\ apiKey \in DOMAIN Profiles THEN Some(Profiles[apiKey]) ELSE None

\* getCategories: the rows, or [] when the query failed
getCategories(dbOk) == IF dbOk THEN Vocabulary ELSE <<>>

\* getCategoryIdBySlug
getCategoryIdBySlug(slug, categories) ==
    IF ~IsSome(slug) THEN None
    ELSE LET hits == {j \in 1..Len(categories) :
                        toLowerCase(categories[j].slug) = toLowerCase(Val(slug))}
         IN  IF hits = {} THEN None
             ELSE Some(categories[CHOOSE j \in hits : \A k \in hits : j <= k].id)

\* What the transactions table answers to a write.
\*   "ok"    the statement ran
\*   "23505" unique_violation on (user_id, sms_id)
\*   "error" any other failure (constraint, connection, timeout)
DbOutcomes == {"ok", "23505", "error"}

KeyTaken(table, txn) ==
    /\ IsSome(txn.sms_id)
    /\ \E r \in BagToSet(table) : r.user_id = txn.user_id /\ r.sms_id = txn.sms_id

\* Upsert with ignoreDuplicates: false: ON CONFLICT ... DO UPDATE
UpsertOverwrites(table, txn, outcome) ==
    IF outcome # "ok" THEN table
    ELSE LET others == {r \in BagToSet(table) :
                          ~(r.user_id = txn.user_id /\ r.sms_id = txn.sms_id)}
         IN  [r \in others |-> table[r]] (+) SetToBag({txn})

\* Upsert as a plain insert into a table without the unique key
UpsertBlind(table, txn, outcome) ==
    IF outcome = "ok" THEN table (+) SetToBag({txn}) ELSE table

\* .upsert(transaction, {onConflict: "user_id,sms_id", ignoreDuplicates: true}):
\* INSERT ... ON CONFLICT (user_id, sms_id) DO NOTHING
Upsert(table, txn, outcome) ==
    IF outcome = "ok" /\ ~KeyTaken(table, txn)
    THEN table (+) SetToBag({txn})
    ELSE table

\* insertTransaction without the check for code 23505
insertTransactionStrict(outcome) ==
    IF outcome = "ok" THEN [success |-> TRUE, error |-> None]
    ELSE [success |-> FALSE, error |-> Some("db error")]

\* insertTransaction that drops the error of the write
insertTransactionSwallows(outcome) == [success |-> TRUE, error |-> None]

\* insertTransaction: what it resolves to
insertTransaction(outcome) ==
    IF outcome = "ok" THEN [success |-> TRUE, error |-> None]
    ELSE IF outcome = "23505" THEN [success |-> TRUE, error |-> None]
    ELSE [success |-> FALSE, error |-> Some("db error")]

(***************************************************************************)
(* State                                                                   *)
(***************************************************************************)
VARIABLES
    store,           \* the transactions table: a bag of rows
    syncRuns,        \* the sync_runs table: a set of rows
    cachedRates,     \* currency.ts: cachedRates (None is null)
    cacheTimestamp,  \* currency.ts: cacheTimestamp
    now,             \* the clock, Date.now()
    calls            \* per request: the handler's locals and its position

vars == <<store, syncRuns, cachedRates, cacheTimestamp, now, calls>>

\* what a request has done so far (history, for stating the properties)
\*   oracle, fetch, txn, run: calls issued to the model, the rate API, the
\*   transactions table and the sync_runs table; threw: the model call threw;
\*   rates: calls of getExchangeRates (each reads the cache)
\* and, in fills, the timestamps its refreshes have written to the cache
NoEffects ==
    [oracle |-> 0, rates |-> 0, fetch |-> 0, txn |-> 0, run |-> 0, threw |-> FALSE]

IdleCall ==
    [kind |-> "none", pc |-> "idle", api_key |-> "", user |-> None,
     messages |-> <<>>, rows |-> <<>>, categories |-> <<>>, parsed |-> <<>>,
     i |-> 1, inserted |-> 0, skipped |-> 0, errors |-> 0,
     details |-> <<>>, errorDetails |-> <<>>,
     pending |-> None, nowRead |-> 0, run |-> None,
     arg |-> None, fetched |-> None, result |-> None,
     response |-> None, log |-> <<>>, fills |-> {}, fx |-> NoEffects]

Init ==
    /\ store = EmptyBag
    /\ syncRuns = {}
    /\ cachedRates = None
    /\ cacheTimestamp = 0
    /\ now = 0
    /\ calls = [c \in Calls |-> IdleCall]

(***************************************************************************)
(* routes/sms.ts: POST /api/sms/ingest                                     *)
(***************************************************************************)
\* parsedMapGet with a map that keeps the first of several entries with one
\* key
parsedMapGetFirst(parsed, id) ==
    LET hits == {j \in 1..Len(parsed) : parsed[j].sms_id = id}
    IN  IF hits = {} THEN None
        ELSE Some(parsed[CHOOSE j \in hits : \A k \in hits : j <= k])

\* parsedMap.get(id), parsedMap = new Map(parsed.map((p) => [p.sms_id, p])):
\* of several entries with one key the Map keeps the last
parsedMapGet(parsed, id) ==
    LET hits == {j \in 1..Len(parsed) : parsed[j].sms_id = id}
    IN  IF hits = {} THEN None
        ELSE Some(parsed[CHOOSE j \in hits : \A k \in hits : k <= j])

Detail(id, status, reason, transaction) ==
    [sms_id |-> id, status |-> status, reason |-> reason, transaction |-> transaction]

\* Skip without skipped++
SkipUncounted(s, msg, reason) ==
    [s EXCEPT !.details = Append(@, Detail(msg.id, "skipped", Some(reason), None)),
              !.i = @ + 1]

\* Skip without details.push
SkipSilent(s, msg, reason) ==
    [s EXCEPT !.skipped = @ + 1, !.i = @ + 1]

\* skipped++; details.push({... status: "skipped" ...}); continue
Skip(s, msg, reason) ==
    [s EXCEPT !.skipped = @ + 1,
              !.details = Append(@, Detail(msg.id, "skipped", Some(reason), None)),
              !.i = @ + 1]

\* const is_expense = txn.direction === "debit" ? (txn.is_expense ?? true) : false
IsExpense(txn) ==
    IF Val(txn.direction) = "debit" THEN OrElse(txn.is_expense, TRUE) ELSE FALSE

\* IsIncome with the model's flag taken for either direction
IsIncomeAsGiven(txn) ==
    OrElse(txn.is_income, Val(txn.direction) = "credit")

\* const is_income = txn.direction === "credit" ? (txn.is_income ?? true) : false
IsIncome(txn) ==
    IF Val(txn.direction) = "credit" THEN OrElse(txn.is_income, TRUE) ELSE FALSE

\* TransactionData with sms_id taken from the last candidate the model
\* returned instead of from the message
TransactionDataKeyedByLast(s, msg, txn, amountINR, originalAmount, originalCurrency) ==
    [user_id |-> Val(s.user),
     amount |-> amountINR,
     direction |-> Val(txn.direction),
     transacted_at |-> OrElse(msg.timestamp, "now"),
     merchant |-> txn.merchant,
     raw_sms |-> Some(msg.body),
     sms_id |-> Some(s.parsed[Len(s.parsed)].sms_id),
     sms_sender |-> Some(msg.sender),
     source |-> "sms",
     category_id |-> getCategoryIdBySlug(txn.category_slug, s.categories),
     original_amount |-> originalAmount,
     original_currency |-> originalCurrency,
     is_expense |-> IsExpense(txn),
     is_income |-> IsIncome(txn)]

\* transactionData.  The columns payment_method, account_last4, bank_name and
\* reference_id are copied from the candidate exactly as merchant is and are
\* not modelled.
TransactionData(s, msg, txn, amountINR, originalAmount, originalCurrency) ==
    [user_id |-> Val(s.user),
     amount |-> amountINR,
     direction |-> Val(txn.direction),
     transacted_at |-> OrElse(msg.timestamp, "now"),
     merchant |-> txn.merchant,
     raw_sms |-> Some(msg.body),
     sms_id |-> Some(msg.id),
     sms_sender |-> Some(msg.sender),
     source |-> "sms",
     category_id |-> getCategoryIdBySlug(txn.category_slug, s.categories),
     original_amount |-> originalAmount,
     original_currency |-> originalCurrency,
     is_expense |-> IsExpense(txn),
     is_income |-> IsIncome(txn)]

\* the conversion block and the insertTransaction call, once the rate table
\* is at hand (rates is unused for an INR amount)
IssueInsert(s, msg, txn, rates) ==
    LET currency == OrIfFalsy(txn.currency, "INR")
        foreign == isForeignCurrency(Some(currency))
        conversion == convertToINR(Val(txn.amount), currency, rates)
        data == TransactionData(s, msg, txn,
                    IF foreign THEN conversion.amountINR ELSE Val(txn.amount),
                    IF foreign THEN txn.amount ELSE None,
                    IF foreign THEN Some(toUpperCase(currency)) ELSE None)
    IN  [s EXCEPT !.pc = "insert", !.pending = Some(data), !.fx.txn = @ + 1,
                  !.result = IF foreign THEN Some(conversion) ELSE None]

\* Run status that calls every batch with an error failed
RunStatusAnyError(inserted, errors) ==
    IF errors > 0 THEN "failed" ELSE "success"

\* Determine run status
RunStatus(inserted, errors) ==
    IF errors > 0 /\ inserted = 0 THEN "failed"
    ELSE IF errors > 0 THEN "partial"
    ELSE "success"

\* Finish with a sync run that carries the counts without the details
FinishSummaryOnly(s) ==
    LET run == [user_id |-> Val(s.user),
                status |-> RunStatus(s.inserted, s.errors),
                total_messages |-> Len(s.messages),
                inserted |-> s.inserted, skipped |-> s.skipped, errors |-> s.errors,
                messages |-> s.messages, details |-> <<>>,
                source |-> "sms_sync"]
        response == [http |-> 200, success |-> TRUE,
                     inserted |-> s.inserted, skipped |-> s.skipped,
                     errors |-> s.errors, total |-> Len(s.messages),
                     details |-> s.details]
    IN  [s EXCEPT !.pc = "syncwait", !.run = Some(run),
                  !.response = Some(response), !.fx.run = @ + 1]

\* After the loop: the sync run is handed to insertSyncRun, the response is
\* sent, and the handler awaits the sync run.  Timing columns (started_at,
\* completed_at, duration_ms, rowid_range) are not modelled.
Finish(s) ==
    LET run == [user_id |-> Val(s.user),
                status |-> RunStatus(s.inserted, s.errors),
                total_messages |-> Len(s.messages),
                inserted |-> s.inserted, skipped |-> s.skipped, errors |-> s.errors,
                messages |-> s.messages, details |-> s.details,
                source |-> "sms_sync"]
        response == [http |-> 200, success |-> TRUE,
                     inserted |-> s.inserted, skipped |-> s.skipped,
                     errors |-> s.errors, total |-> Len(s.messages),
                     details |-> s.details]
    IN  [s EXCEPT !.pc = "syncwait", !.run = Some(run),
                  !.response = Some(response), !.fx.run = @ + 1]

\* An error response: res.status(code).json({success: false, error})
Fail(s, code, error) ==
    [s EXCEPT !.pc = "done",
              !.response = Some([http |-> code, success |-> FALSE, error |-> error])]

\* The guards without the is_transaction check
SkipReasonTrusting(found) ==
    IF ~IsSome(found) THEN Some("No AI result for this message")
    ELSE IF ~IsSome(Val(found).amount) \/ ~IsSome(Val(found).direction)
    THEN Some("Missing amount or direction")
    ELSE None

\* The three guards of the loop body: the reason to skip the message, or
\* None when an insert is to be attempted
SkipReason(found) ==
    IF ~IsSome(found) THEN Some("No AI result for this message")
    ELSE IF ~Val(found).is_transaction
    THEN Some(OrElse(Val(found).skip_reason, "Not a transaction"))
    ELSE IF ~IsSome(Val(found).amount) \/ ~IsSome(Val(found).direction)
    THEN Some("Missing amount or direction")
    ELSE None

\* The for loop from message s.i up to the next await that waits on the
\* outside world, or to the end of the handler's synchronous part.
RECURSIVE RunLoop(_, _, _, _)
RunLoop(s, cached, stamp, t) ==
    IF s.i > Len(s.messages) THEN Finish(s)
    ELSE
      LET msg == s.messages[s.i]
          found == parsedMapGet(s.parsed, msg.id)
          txn == Val(found)
          why == SkipReason(found)
      IN  IF IsSome(why)
          THEN RunLoop(Skip(s, msg, Val(why)), cached, stamp, t)
          ELSE IF ~isForeignCurrency(Some(OrIfFalsy(txn.currency, "INR")))
          THEN IssueInsert(s, msg, txn, FALLBACK_RATES)
          ELSE IF CacheFresh(cached, stamp, t)
          THEN IssueInsert([s EXCEPT !.fx.rates = @ + 1], msg, txn, Val(cached))
          ELSE [s EXCEPT !.pc = "fetch", !.nowRead = t,
                         !.fx.rates = @ + 1, !.fx.fetch = @ + 1]

(***************************************************************************)
(* routes/import.ts: POST /api/import/axio                                 *)
(***************************************************************************)
\* A CSV amount, account or time is a sequence of one-character strings.
DigitValue(ch) ==
    CASE ch = "0" -> 0 [] ch = "1" -> 1 [] ch = "2" -> 2 [] ch = "3" -> 3
      [] ch = "4" -> 4 [] ch = "5" -> 5 [] ch = "6" -> 6 [] ch = "7" -> 7
      [] ch = "8" -> 8 [] ch = "9" -> 9
IsDigit(ch) == ch \in {"0", "1", "2", "3", "4", "5", "6", "7", "8", "9"}

\* the longest prefix of digits of str, as <<value, number of digits>>
RECURSIVE DigitRun(_, _, _)
DigitRun(str, value, count) ==
    IF str = <<>> \/ ~IsDigit(Head(str)) THEN <<value, count>>
    ELSE DigitRun(Tail(str), 10 * value + DigitValue(Head(str)), count + 1)

Drop(str, n) == SubSeq(str, n + 1, Len(str))

\* parseFloat on a string without exponent: sign, digits, ".", digits; the
\* value is given in thousandths (the strings of the model have at most
\* three digits after the point)
parseFloat(str) ==
    LET signed == str # <<>> /\ Head(str) \in {"-", "+"}
        body == IF signed THEN Tail(str) ELSE str
        whole == DigitRun(body, 0, 0)
        rest == Drop(body, whole[2])
        hasPoint == rest # <<>> /\ Head(rest) = "."
        frac == IF hasPoint THEN DigitRun(Tail(rest), 0, 0) ELSE <<0, 0>>
        thousandths == IF frac[2] = 0 THEN 0
                       ELSE IF frac[2] = 1 THEN 100 * frac[1]
                       ELSE IF frac[2] = 2 THEN 10 * frac[1]
                       ELSE frac[1]
    IN  [isNaN |-> whole[2] = 0 /\ frac[2] = 0,
         negative |-> signed /\ Head(str) = "-",
         abs |-> 1000 * whole[1] + thousandths]

\* parseAmount that takes an unparseable string for 1
parseAmountDefaultsToOne(amountStr) ==
    IF amountStr = <<>> THEN 0
    ELSE LET cleaned == SelectSeq(amountStr, LAMBDA ch : ch \notin {",", "'", " "})
             num == parseFloat(cleaned)
         IN  IF num.isNaN THEN 1000 ELSE num.abs

\* parseAmount
parseAmount(amountStr) ==
    IF amountStr = <<>> THEN 0
    ELSE LET cleaned == SelectSeq(amountStr, LAMBDA ch : ch \notin {",", "'", " "})
             unquoted == IF Len(cleaned) >= 2 /\ cleaned[1] = "'" /\ cleaned[2] = "-"
                         THEN Tail(cleaned) ELSE cleaned
             num == parseFloat(unquoted)
         IN  IF num.isNaN THEN 0 ELSE num.abs

\* String.prototype.toLowerCase / toUpperCase, character by character
UpperLetters ==
    << "A", "B", "C", "D", "E", "F", "G", "H", "I", "J", "K", "L", "M",
       "N", "O", "P", "Q", "R", "S", "T", "U", "V", "W", "X", "Y", "Z" >>
LowerLetters ==
    << "a", "b", "c", "d", "e", "f", "g", "h", "i", "j", "k", "l", "m",
       "n", "o", "p", "q", "r", "s", "t", "u", "v", "w", "x", "y", "z" >>
LowerChar(ch) ==
    IF \E k \in 1..26 : UpperLetters[k] = ch
    THEN LowerLetters[CHOOSE k \in 1..26 : UpperLetters[k] = ch] ELSE ch
UpperChar(ch) ==
    IF \E k \in 1..26 : LowerLetters[k] = ch
    THEN UpperLetters[CHOOSE k \in 1..26 : LowerLetters[k] = ch] ELSE ch
LowerStr(str) == [k \in 1..Len(str) |-> LowerChar(str[k])]
UpperStr(str) == [k \in 1..Len(str) |-> UpperChar(str[k])]

\* the character classes \s and \w of the regular expressions
IsSpace(ch) == ch \in {" ", "\t"}
IsWordChar(ch) ==
    \/ IsDigit(ch)
    \/ ch = "_"
    \/ \E k \in 1..26 : ch \in {UpperLetters[k], LowerLetters[k]}

\* String.prototype.trim
RECURSIVE TrimStart(_)
TrimStart(str) ==
    IF str # <<>> /\ IsSpace(Head(str)) THEN TrimStart(Tail(str)) ELSE str
RECURSIVE TrimEnd(_)
TrimEnd(str) ==
    IF str # <<>> /\ IsSpace(str[Len(str)])
    THEN TrimEnd(SubSeq(str, 1, Len(str) - 1)) ELSE str
TrimStr(str) == TrimEnd(TrimStart(str))

\* String.prototype.includes
Includes(str, sub) ==
    \E k \in 1..(Len(str) - Len(sub) + 1) : SubSeq(str, k, k + Len(sub) - 1) = sub

\* the number of leading characters of str in a class
RunOf(str, InClass(_)) ==
    CHOOSE n \in 0..Len(str) :
        /\ \A k \in 1..n : InClass(str[k])
        /\ n = Len(str) \/ ~InClass(str[n + 1])

\* acc.match(/^(\w+)\s+<word>\s+(\d{4})$/i), and with word = <<>> the
\* pattern /^(\w+)\s+(\d{4})$/: the groups, or None.  \w+ and \s+ are
\* greedy and their classes are disjoint, so there is one way to match.
MatchAccount(acc, word) ==
    LET w == RunOf(acc, IsWordChar)
        afterW == Drop(acc, w)
        s1 == RunOf(afterW, IsSpace)
        afterS1 == Drop(afterW, s1)
        hasWord == /\ Len(afterS1) >= Len(word)
                   /\ LowerStr(SubSeq(afterS1, 1, Len(word))) = word
        afterWord == Drop(afterS1, Len(word))
        s2 == RunOf(afterWord, IsSpace)
        digits == IF word = <<>> THEN afterS1 ELSE Drop(afterWord, s2)
    IN  IF /\ w >= 1
           /\ s1 >= 1
           /\ word # <<>> => (hasWord /\ s2 >= 1)
           /\ Len(digits) = 4
           /\ \A k \in 1..4 : IsDigit(digits[k])
        THEN Some(<<SubSeq(acc, 1, w), digits>>)
        ELSE None

Cash == <<"c", "a", "s", "h">>
AmazonPay == <<"a", "m", "a", "z", "o", "n", " ", "p", "a", "y">>
Simpl == <<"s", "i", "m", "p", "l">>
AmazonPayName == <<"A", "m", "a", "z", "o", "n", " ", "P", "a", "y">>
SimplName == <<"S", "i", "m", "p", "l">>
CreditWord == <<"c", "r", "e", "d", "i", "t">>
DebitWord == <<"d", "e", "b", "i", "t">>
BankSuffix == <<" ", "B", "a", "n", "k">>

Account(method, last4, bank) ==
    [payment_method |-> method, account_last4 |-> last4, bank_name |-> bank]

\* parseAccount with the test for "cash" moved behind the other rules
parseAccountCashLast(account) ==
    LET acc == TrimStr(account)
        creditMatch == MatchAccount(acc, CreditWord)
        debitMatch == MatchAccount(acc, DebitWord)
        bankMatch == MatchAccount(acc, <<>>)
    IN  IF account = <<>> THEN Account(None, None, None)
        ELSE IF Includes(LowerStr(acc), AmazonPay)
        THEN Account(Some("wallet"), None, Some(AmazonPayName))
        ELSE IF Includes(LowerStr(acc), Simpl)
        THEN Account(Some("wallet"), None, Some(SimplName))
        ELSE IF IsSome(creditMatch)
        THEN Account(Some("card"), Some(Val(creditMatch)[2]),
                     Some(Val(creditMatch)[1] \o BankSuffix))
        ELSE IF IsSome(debitMatch)
        THEN Account(Some("card"), Some(Val(debitMatch)[2]),
                     Some(Val(debitMatch)[1] \o BankSuffix))
        ELSE IF IsSome(bankMatch)
        THEN Account(Some("upi"), Some(Val(bankMatch)[2]),
                     Some(Val(bankMatch)[1] \o BankSuffix))
        ELSE IF Includes(LowerStr(acc), Cash)
        THEN Account(Some("other"), None, None)
        ELSE Account(None, None, None)

\* parseAccount
parseAccount(account) ==
    LET acc == TrimStr(account)
        creditMatch == MatchAccount(acc, CreditWord)
        debitMatch == MatchAccount(acc, DebitWord)
        bankMatch == MatchAccount(acc, <<>>)
    IN  IF account = <<>> THEN Account(None, None, None)
        ELSE IF Includes(LowerStr(acc), Cash)
        THEN Account(Some("other"), None, None)
        ELSE IF Includes(LowerStr(acc), AmazonPay)
        THEN Account(Some("wallet"), None, Some(AmazonPayName))
        ELSE IF Includes(LowerStr(acc), Simpl)
        THEN Account(Some("wallet"), None, Some(SimplName))
        ELSE IF IsSome(creditMatch)
        THEN Account(Some("card"), Some(Val(creditMatch)[2]),
                     Some(Val(creditMatch)[1] \o BankSuffix))
        ELSE IF IsSome(debitMatch)
        THEN Account(Some("card"), Some(Val(debitMatch)[2]),
                     Some(Val(debitMatch)[1] \o BankSuffix))
        ELSE IF IsSome(bankMatch)
        THEN Account(Some("upi"), Some(Val(bankMatch)[2]),
                     Some(Val(bankMatch)[1] \o BankSuffix))
        ELSE Account(None, None, None)

\* str.split(sep) for a separator of one character
RECURSIVE Split(_, _)
Split(str, sep) ==
    IF \E k \in 1..Len(str) : str[k] = sep
    THEN LET k == CHOOSE k \in 1..Len(str) :
                      str[k] = sep /\ \A j \in 1..(k - 1) : str[j] # sep
         IN  <<SubSeq(str, 1, k - 1)>> \o Split(Drop(str, k), sep)
    ELSE <<str>>

\* JavaScript values of the time arithmetic: a number, NaN or undefined
Num(n) == [kind |-> "number", n |-> n]
NaN == [kind |-> "NaN", n |-> 0]
Undefined == [kind |-> "undefined", n |-> 0]

\* Number(str) on a string of digits, an empty string (0) or anything else
\* (NaN); signs, points and exponents do not occur in the model's times
Number(str) ==
    IF DigitRun(str, 0, 0)[2] = Len(str) THEN Num(DigitRun(str, 0, 0)[1]) ELSE NaN

\* String(n) for a natural number
RECURSIVE Decimal(_)
Decimal(n) ==
    LET digit == <<"0", "1", "2", "3", "4", "5", "6", "7", "8", "9">>[(n % 10) + 1]
    IN  IF n < 10 THEN <<digit>> ELSE Decimal(n \div 10) \o <<digit>>

\* String(v).padStart(2, "0")
PadStart2(v) ==
    LET text == CASE v.kind = "number" -> Decimal(v.n)
                  [] v.kind = "NaN" -> <<"N", "a", "N">>
                  [] v.kind = "undefined" ->
                         <<"u", "n", "d", "e", "f", "i", "n", "e", "d">>
    IN  IF Len(text) < 2 THEN <<"0">> \o text ELSE text

\* The timestamp `${date}T${h}:${m}:00+05:30`
Timestamp(date, h, m) == [date |-> date, h |-> h, m |-> m, offset |-> "+05:30"]

\* parseDateTime.  time is a string, so nothing in the try block throws and
\* the catch block, which returns midnight, is never entered.
parseDateTime(date, time) ==
    LET parts == Split(TrimStr(time), " ")
        timePart == parts[1]
        ampm == IF Len(parts) >= 2 THEN Some(UpperStr(parts[2])) ELSE None
        numbers == Split(timePart, ":")
        hours == Number(numbers[1])
        minutes == IF Len(numbers) >= 2 THEN Number(numbers[2]) ELSE Undefined
        isTwelve == hours.kind = "number" /\ hours.n = 12
        adjusted ==
            IF ampm = Some(<<"P", "M">>) /\ ~isTwelve
            THEN (IF hours.kind = "number" THEN Num(hours.n + 12) ELSE NaN)
            ELSE IF ampm = Some(<<"A", "M">>) /\ isTwelve THEN Num(0)
            ELSE hours
    IN  Timestamp(date, PadStart2(adjusted), PadStart2(minutes))

\* errorDetails keeps at most this many entries
ERROR_DETAILS_CAP == 10

\* transactionData of a CSV row.  The columns category_id and notes are not
\* modelled.
RowData(s, row, amount) ==
    [user_id |-> Val(s.user),
     amount |-> amount,
     direction |-> IF toUpperCase(trim(row.direction)) = "CR" THEN "credit" ELSE "debit",
     transacted_at |-> parseDateTime(row.date, row.time),
     payment_method |-> parseAccount(row.account).payment_method,
     account_last4 |-> parseAccount(row.account).account_last4,
     bank_name |-> parseAccount(row.account).bank_name,
     merchant |-> IF trim(row.place) = "" THEN None ELSE Some(trim(row.place)),
     raw_sms |-> None,
     sms_id |-> None,
     sms_sender |-> None,
     source |-> "axio",
     category_id |-> None,
     original_amount |-> None,
     original_currency |-> None,
     is_expense |-> toLowerCase(trim(row.expense)) = "yes",
     is_income |-> toLowerCase(trim(row.income)) = "yes"]

\* res.json({success: true, inserted, skipped, errors, total, errorDetails})
ImportResponse(s) ==
    [s EXCEPT !.pc = "done",
              !.response = Some([http |-> 200, success |-> TRUE,
                                 inserted |-> s.inserted, skipped |-> s.skipped,
                                 errors |-> s.errors, total |-> Len(s.rows),
                                 errorDetails |-> s.errorDetails])]

\* The for loop from row s.i up to the next insert, or to the response
RECURSIVE RunImport(_)
RunImport(s) ==
    IF s.i > Len(s.rows) THEN ImportResponse(s)
    ELSE
      LET row == s.rows[s.i]
          amount == parseAmount(row.amount)
      IN  IF amount <= 0
          THEN RunImport([s EXCEPT !.skipped = @ + 1, !.i = @ + 1])
          ELSE [s EXCEPT !.pc = "insert", !.pending = Some(RowData(s, row, amount)),
                         !.fx.txn = @ + 1]

\* supabase.from("transactions").insert(transactionData): a plain INSERT
Insert(table, txn, outcome) ==
    IF outcome = "ok" THEN table (+) SetToBag({txn}) ELSE table

(***************************************************************************)
(* Inputs                                                                  *)
(***************************************************************************)
\* api keys a request can carry; "" fails the schema (min length 1) and
\* "nokey" is in no profile
ApiKeys == {"k1", "k2", "nokey", ""}

\* SMS messages; the id is unique per device only, so two messages share id 1
MsgA == [id |-> 1, sender |-> "VM-HDFCBK", body |-> "Rs.100 spent", timestamp |-> Some("t1")]
MsgB == [id |-> 1, sender |-> "AX-ICICI", body |-> "USD 0.50 credited", timestamp |-> None]
MsgC == [id |-> 2, sender |-> "VM-HDFCBK", body |-> "OTP 4711", timestamp |-> Some("t2")]

SeqsUpTo(S, n) == UNION {[1..k -> S] : k \in 0..n}

\* what the model returns for one message (TransactionOutputSchema)
Candidate(id, isTx, amount, currency, direction, slug, isExpense, isIncome, skip) ==
    [sms_id |-> id, is_transaction |-> isTx, amount |-> amount,
     currency |-> currency, direction |-> direction, merchant |-> None,
     category_slug |-> slug, is_expense |-> isExpense, is_income |-> isIncome,
     skip_reason |-> skip]

NotTxn(id) == Candidate(id, FALSE, None, None, None, None, None, None, Some("otp"))
NoAmount(id) == Candidate(id, TRUE, None, None, Some("debit"), None, None, None, None)
NoDirection(id) == Candidate(id, TRUE, Some(100000), None, None, None, None, None, None)
DebitINR(id) ==
    Candidate(id, TRUE, Some(100000), None, Some("debit"), Some("FOOD"), None, None, None)
Declined(id) ==
    Candidate(id, FALSE, Some(100000), None, Some("debit"), None, None, None, None)
CreditUSD(id) ==
    Candidate(id, TRUE, Some(500), Some("usd"), Some("credit"), None, None, Some(FALSE), None)

\* 0.50 IDR, which is less than half a paisa at 190 IDR to the rupee
DebitIDR(id) ==
    Candidate(id, TRUE, Some(500), Some("IDR"), Some("debit"), None, None, None, None)
\* the base currency given in lower case, and a currency given as ""
DebitBase(id) ==
    Candidate(id, TRUE, Some(100000), Some("inr"), Some("debit"), None, None, None, None)
DebitBlank(id) ==
    Candidate(id, TRUE, Some(100000), Some(""), Some("debit"), None, None, None, None)

\* a debit the model flags as income and not as expense, and a credit it
\* does not flag at all
DebitFlagged(id) ==
    Candidate(id, TRUE, Some(100000), None, Some("debit"), None, Some(FALSE), Some(TRUE), None)
CreditPlain(id) ==
    Candidate(id, TRUE, Some(100000), None, Some("credit"), None, None, None, None)

\* One request: batches over two message ids; the model answers for those
\* ids and for 7, the id of no message
Batches == SeqsUpTo({MsgA, MsgC}, MaxBatch)
Candidates ==
    {NotTxn(1), Declined(1), NoAmount(1), NoDirection(1), DebitINR(1), CreditUSD(1),
     NotTxn(2), DebitINR(2), DebitINR(7)}
Answers == SeqsUpTo(Candidates, MaxParsed)

\* CSV rows
Chars(a, b, c, d) == SelectSeq(<<a, b, c, d>>, LAMBDA ch : ch # "")
HdfcCredit5487 ==
    <<"H", "D", "F", "C", " ", "c", "r", "e", "d", "i", "t", " ", "5", "4", "8", "7">>
Time0949AM == <<"0", "9", ":", "4", "9", " ", "A", "M">>
Row(amount, direction, expense, income) ==
    [date |-> "2025-02-02", time |-> Time0949AM, place |-> " Swiggy ",
     amount |-> amount, direction |-> direction, account |-> HdfcCredit5487,
     expense |-> expense, income |-> income, category |-> "FOOD & DRINKS"]
Rows ==
    { Row(Chars("1", "2", "", ""), "DR", "Yes", "'-"),
      Row(Chars("'", "-", "3", ""), " cr ", "No", " Yes"),
      Row(Chars("0", ".", "0", ""), "DR", "Yes", "No"),
      Row(Chars("", "", "", ""), "CR", "'-", "YES"),
      Row(Chars("a", "b", "", ""), "DR", "Yes", "No") }
RowLists == SeqsUpTo(Rows, MaxBatch)

\* Two requests at once: the scenarios
RaceKeys == {"k1"}
RaceBatches == {<<MsgA>>, <<MsgB>>, <<MsgC, MsgA>>}
RaceAnswers == {<<DebitINR(1)>>, <<CreditUSD(1)>>, <<NotTxn(2), DebitINR(1)>>}

\* One import request: account descriptors and times of the day
Kotak3760 == <<"K", "o", "t", "a", "k", " ", " ", "3", "7", "6", "0">>
KotakDebit8641 ==
    <<"K", "o", "t", "a", "k", " ", "d", "e", "b", "i", "t", " ", "8", "6", "4", "1">>
PnbDebit1472 ==
    <<" ", "P", "N", "B", " ", "D", "E", "B", "I", "T", " ", "1", "4", "7", "2", " ">>
CashSpends == <<"C", "A", "S", "H", " ", "S", "p", "e", "n", "d", "s">>
CashCredit1234 ==
    <<"C", "a", "s", "h", " ", "c", "r", "e", "d", "i", "t", " ", "1", "2", "3", "4">>
Cashback1234 == <<"c", "a", "s", "h", "b", "a", "c", "k", " ", "1", "2", "3", "4">>
AmazonPayUnknown ==
    <<"A", "m", "a", "z", "o", "n", " ", "P", "a", "y", " ", " ",
      "U", "n", "k", "n", "o", "w", "n">>
SimplUnknown == <<"S", "i", "m", "p", "l", " ", " ", "U", "n", "k", "n", "o", "w", "n">>
SimplDebit1234 ==
    <<"S", "i", "m", "p", "l", " ", "d", "e", "b", "i", "t", " ", "1", "2", "3", "4">>
Unknown == <<"U", "n", "k", "n", "o", "w", "n">>
HdfcCredit54871 == HdfcCredit5487 \o <<"1">>
Accounts ==
    {HdfcCredit5487, Kotak3760, KotakDebit8641, PnbDebit1472, CashSpends,
     CashCredit1234, Cashback1234, AmazonPayUnknown, SimplUnknown, SimplDebit1234,
     Unknown,
     HdfcCredit54871, <<>>}

Time1205am == <<"1", "2", ":", "0", "5", " ", "a", "m">>
Time1130PM == <<"1", "1", ":", "3", "0", " ", "P", "M">>
Time1230PM == <<"1", "2", ":", "3", "0", " ", "P", "M">>
TimeAbc == <<"a", "b", "c">>
Time2599XM == <<"2", "5", ":", "9", "9", " ", "X", "M">>
\* the 12-hour "HH:MM AM/PM" times, and the others
WellFormedTimes == {Time0949AM, Time1205am, Time1130PM, Time1230PM}
MalformedTimes == {TimeAbc, <<>>, Time2599XM}

GoodRow == Row(Chars("1", "2", "", ""), "DR", "Yes", "'-")
ZeroRow == Row(Chars("0", ".", "0", ""), "DR", "Yes", "No")
\* a list two rows longer than errorDetails can get, its second row skipped
LongRowList ==
    [k \in 1..(ERROR_DETAILS_CAP + 3) |-> IF k = 2 THEN ZeroRow ELSE GoodRow]
ImportKeys == {"k1"}
ImportRowLists ==
    {LongRowList} \cup
    { <<[GoodRow EXCEPT !.account = account, !.time = time]>> :
          account \in Accounts, time \in WellFormedTimes \cup MalformedTimes }

\* Two requests of either kind at once: the scenarios
StoreKeys == {"k1"}
StoreBatches == {<<MsgB>>, <<MsgB, MsgC>>}
StoreAnswers ==
    {<<CreditUSD(1)>>, <<DebitIDR(1)>>, <<DebitBase(1), DebitBlank(2)>>,
     <<DebitFlagged(1), CreditPlain(2)>>}
StoreRowLists ==
    { << Row(Chars("1", "2", "", ""), "DR", "Yes", "Yes"),
         Row(Chars("'", "-", "3", ""), " cr ", "No", " Yes"),
         Row(Chars("7", "", "", ""), "CR", "'-", "YES") >> }

\* Direct calls of convertToINR: amounts of 0.001, 0.012, 1.005 and 190.00,
\* and the base currency in three letter cases beside other codes
ConvertAmounts == {1, 12, 1005, 190000}
ConvertCodes == {"INR", "inr", "Inr", "usd", "IDR", "xyz"}

\* The clock advances in steps of half an hour, MaxTicks times at most
TICK_MS == 30 * 60 * 1000
MaxTicks == 2

(***************************************************************************)
(* The handlers' steps                                                     *)
(***************************************************************************)
Set(c, s) == calls' = [calls EXCEPT ![c] = s]

\* History of one write to the transactions table: the detail entry it
\* leads to, what the table answered, whether the row's key was already
\* stored, and whether another request's write of the same key was in flight
LogEntry(c, outcome) ==
    LET txn == Val(calls[c].pending)
    IN  [at |-> Len(calls[c].details) + 1,
         outcome |-> outcome,
         taken |-> KeyTaken(store, txn),
         raced |-> \E d \in Calls \ {c} :
                      /\ calls[d].pc = "insert"
                      /\ Val(calls[d].pending).user_id = txn.user_id
                      /\ Val(calls[d].pending).sms_id = txn.sms_id]

\* An ingest request arrives: IngestRequestSchema.safeParse, then
\* getUserByApiKey is called.  The schema accepts any array of messages,
\* the empty one too.
Receive(c, keys, batches) ==
    /\ calls[c].pc = "idle"
    /\ \E key \in keys, msgs \in batches :
         LET s == [calls[c] EXCEPT !.kind = "ingest", !.api_key = key, !.messages = msgs]
         IN  IF key = ""
             THEN Set(c, Fail(s, 400, "Invalid request body"))
             ELSE Set(c, [s EXCEPT !.pc = "auth"])
    /\ UNCHANGED <<store, syncRuns, cachedRates, cacheTimestamp, now>>

\* An import request arrives: ImportRequestSchema.safeParse, then
\* getUserByApiKey is called
ReceiveImport(c, keys, rowLists) ==
    /\ calls[c].pc = "idle"
    /\ \E key \in keys, rows \in rowLists :
         LET s == [calls[c] EXCEPT !.kind = "axio", !.api_key = key, !.rows = rows]
         IN  IF key = ""
             THEN Set(c, Fail(s, 400, "Invalid request body"))
             ELSE Set(c, [s EXCEPT !.pc = "auth"])
    /\ UNCHANGED <<store, syncRuns, cachedRates, cacheTimestamp, now>>

\* GetUser without the return after the 401
GetUserFallsThrough(c) ==
    /\ calls[c].pc = "auth"
    /\ \E dbOk \in BOOLEAN :
         LET user == getUserByApiKey(calls[c].api_key, dbOk)
         IN  IF ~IsSome(user)
             THEN Set(c, [Fail(calls[c], 401, "Invalid API key") EXCEPT
                             !.pc = "cats", !.user = Some("u1")])
             ELSE Set(c, [calls[c] EXCEPT !.pc = "cats", !.user = user])
    /\ UNCHANGED <<store, syncRuns, cachedRates, cacheTimestamp, now>>

\* getUserByApiKey resolves (either handler); then getCategories is called
GetUser(c) ==
    /\ calls[c].pc = "auth"
    /\ \E dbOk \in BOOLEAN :
         LET user == getUserByApiKey(calls[c].api_key, dbOk)
         IN  IF ~IsSome(user)
             THEN Set(c, Fail(calls[c], 401, "Invalid API key"))
             ELSE Set(c, [calls[c] EXCEPT !.pc = "cats", !.user = user])
    /\ UNCHANGED <<store, syncRuns, cachedRates, cacheTimestamp, now>>

\* ingest: getCategories resolves; then parseAndCategorize is called, which
\* calls the model unless the batch is empty
GetCategories(c) ==
    /\ calls[c].pc = "cats"
    /\ calls[c].kind = "ingest"
    /\ \E dbOk \in BOOLEAN :
         Set(c, [calls[c] EXCEPT !.pc = "oracle", !.categories = getCategories(dbOk),
                    !.fx.oracle = IF Len(calls[c].messages) = 0 THEN @ ELSE @ + 1])
    /\ UNCHANGED <<store, syncRuns, cachedRates, cacheTimestamp, now>>

\* OracleFails with a catch that goes on with no candidates
OracleFailsLenient(c) ==
    /\ calls[c].pc = "oracle"
    /\ Len(calls[c].messages) > 0
    /\ Set(c, RunLoop([calls[c] EXCEPT !.fx.threw = TRUE],
                      cachedRates, cacheTimestamp, now))
    /\ UNCHANGED <<store, syncRuns, cachedRates, cacheTimestamp, now>>

\* parseAndCategorize throws: the handler answers 500
OracleFails(c) ==
    /\ calls[c].pc = "oracle"
    /\ Len(calls[c].messages) > 0
    /\ Set(c, Fail([calls[c] EXCEPT !.fx.threw = TRUE], 500, "Failed to parse SMS with AI"))
    /\ UNCHANGED <<store, syncRuns, cachedRates, cacheTimestamp, now>>

\* parseAndCategorize resolves ([] for an empty batch); the loop starts
OracleAnswers(c, answers) ==
    /\ calls[c].pc = "oracle"
    /\ \E parsed \in answers \cup {<<>>} :
         /\ Len(calls[c].messages) = 0 => parsed = <<>>
         /\ Set(c, RunLoop([calls[c] EXCEPT !.parsed = parsed],
                           cachedRates, cacheTimestamp, now))
    /\ UNCHANGED <<store, syncRuns, cachedRates, cacheTimestamp, now>>

\* FetchDone with a fetchExchangeRates that rejects when the fetch fails
FetchDoneStrict(c) ==
    /\ calls[c].pc = "fetch"
    /\ calls[c].kind = "ingest"
    /\ \E result \in FetchResults :
         LET rates == fetchExchangeRates(result)
             s == calls[c]
             msg == s.messages[s.i]
             txn == Val(parsedMapGet(s.parsed, msg.id))
         IN  IF ~result.ok
             THEN /\ Set(c, Fail(s, 500, "Internal Server Error"))
                  /\ UNCHANGED <<cachedRates, cacheTimestamp>>
             ELSE /\ cachedRates' = Some(rates)
                  /\ cacheTimestamp' = s.nowRead
                  /\ Set(c, IssueInsert([s EXCEPT !.fills = @ \cup {s.nowRead},
                                                   !.fetched = Some(result)],
                                        msg, txn, rates))
    /\ UNCHANGED <<store, syncRuns, now>>

\* fetchExchangeRates resolves inside getExchangeRates: the cache is
\* written with the time read before the fetch, convertToINR returns, and
\* insertTransaction is called
FetchDone(c) ==
    /\ calls[c].pc = "fetch"
    /\ calls[c].kind = "ingest"
    /\ \E result \in FetchResults :
         LET rates == fetchExchangeRates(result)
             s == calls[c]
             msg == s.messages[s.i]
             txn == Val(parsedMapGet(s.parsed, msg.id))
         IN  /\ cachedRates' = Some(rates)
             /\ cacheTimestamp' = s.nowRead
             /\ Set(c, IssueInsert([s EXCEPT !.fills = @ \cup {s.nowRead},
                                              !.fetched = Some(result)],
                                   msg, txn, rates))
    /\ UNCHANGED <<store, syncRuns, now>>

\* insertTransaction resolves: the message is counted and the loop goes on
InsertDone(c) ==
    /\ calls[c].pc = "insert"
    /\ calls[c].kind = "ingest"
    /\ \E outcome \in DbOutcomes :
         LET s == calls[c]
             msg == s.messages[s.i]
             txn == Val(parsedMapGet(s.parsed, msg.id))
             result == insertTransaction(outcome)
             counted ==
                 IF result.success
                 THEN [s EXCEPT !.inserted = @ + 1,
                         !.details = Append(@, Detail(msg.id, "inserted", None,
                             Some([amount |-> Val(txn.amount),
                                   direction |-> Val(txn.direction),
                                   merchant |-> txn.merchant,
                                   category |-> txn.category_slug])))]
                 ELSE [s EXCEPT !.errors = @ + 1,
                         !.details = Append(@, Detail(msg.id, "error",
                             Some(OrElse(result.error, "Insert failed")), None))]
             next == [counted EXCEPT !.i = @ + 1, !.pending = None,
                         !.log = Append(@, LogEntry(c, outcome))]
         IN  /\ outcome = "23505" => KeyTaken(store, Val(s.pending))
             /\ store' = Upsert(store, Val(s.pending), outcome)
             /\ Set(c, RunLoop(next, cachedRates, cacheTimestamp, now))
    /\ UNCHANGED <<syncRuns, cachedRates, cacheTimestamp, now>>

\* SyncRunDone that turns a failed write into a failed request
SyncRunDoneSurfaced(c) ==
    /\ calls[c].pc = "syncwait"
    /\ \E outcome \in {"ok", "error", "throws"} :
         /\ syncRuns' = IF outcome = "ok"
                        THEN syncRuns \cup {[call |-> c] @@ Val(calls[c].run)}
                        ELSE syncRuns
         /\ IF outcome = "ok"
            THEN Set(c, [calls[c] EXCEPT !.pc = "done", !.run = None])
            ELSE Set(c, [Fail(calls[c], 500, "Failed to record sync run") EXCEPT
                            !.run = None])
    /\ UNCHANGED <<store, cachedRates, cacheTimestamp, now>>

\* insertSyncRun settles after the response was sent: the row is written,
\* or the insert returns an error (logged), or it rejects (caught, logged)
SyncRunDone(c) ==
    /\ calls[c].pc = "syncwait"
    /\ \E outcome \in {"ok", "error", "throws"} :
         syncRuns' = IF outcome = "ok"
                     THEN syncRuns \cup {[call |-> c] @@ Val(calls[c].run)}
                     ELSE syncRuns
    /\ Set(c, [calls[c] EXCEPT !.pc = "done", !.run = None])
    /\ UNCHANGED <<store, cachedRates, cacheTimestamp, now>>

\* import: getCategories resolves; the row loop starts
ImportCategories(c) ==
    /\ calls[c].pc = "cats"
    /\ calls[c].kind = "axio"
    /\ \E dbOk \in BOOLEAN :
         Set(c, RunImport([calls[c] EXCEPT !.categories = getCategories(dbOk)]))
    /\ UNCHANGED <<store, syncRuns, cachedRates, cacheTimestamp, now>>

\* InsertRowDone with the loop ended by the first failed insert
InsertRowDoneAborts(c) ==
    /\ calls[c].pc = "insert"
    /\ calls[c].kind = "axio"
    /\ \E outcome \in {"ok", "error"} :
         LET s == calls[c]
             counted ==
                 IF outcome # "ok"
                 THEN [s EXCEPT !.errors = @ + 1,
                         !.errorDetails = IF Len(@) < ERROR_DETAILS_CAP
                                          THEN Append(@, <<s.i, "db error">>) ELSE @]
                 ELSE [s EXCEPT !.inserted = @ + 1]
             next == [counted EXCEPT !.i = @ + 1, !.pending = None,
                         !.log = Append(@, LogEntry(c, outcome))]
         IN  /\ store' = Insert(store, Val(s.pending), outcome)
             /\ Set(c, IF outcome = "ok" THEN RunImport(next) ELSE ImportResponse(next))
    /\ UNCHANGED <<syncRuns, cachedRates, cacheTimestamp, now>>

\* import: the insert of a row resolves; the row is counted and the loop
\* goes on
InsertRowDone(c) ==
    /\ calls[c].pc = "insert"
    /\ calls[c].kind = "axio"
    /\ \E outcome \in {"ok", "error"} :
         LET s == calls[c]
             counted ==
                 IF outcome # "ok"
                 THEN [s EXCEPT !.errors = @ + 1,
                         !.errorDetails = IF Len(@) < ERROR_DETAILS_CAP
                                          THEN Append(@, <<s.i, "db error">>) ELSE @]
                 ELSE [s EXCEPT !.inserted = @ + 1]
             next == [counted EXCEPT !.i = @ + 1, !.pending = None,
                         !.log = Append(@, LogEntry(c, outcome))]
         IN  /\ store' = Insert(store, Val(s.pending), outcome)
             /\ Set(c, RunImport(next))
    /\ UNCHANGED <<syncRuns, cachedRates, cacheTimestamp, now>>

\* Date.now() grows between two steps
Tick ==
    /\ now < MaxTicks * TICK_MS
    /\ now' = now + TICK_MS
    /\ UNCHANGED <<store, syncRuns, cachedRates, cacheTimestamp, calls>>

\* ConvertCall without the shortcut for the base currency
ConvertCallNoShortcut(c, amounts, codes) ==
    /\ calls[c].pc = "idle"
    /\ \E amount \in amounts, code \in codes :
         LET s == [calls[c] EXCEPT !.kind = "convert",
                      !.arg = Some([amount |-> amount, currency |-> code])]
             rates == IF CacheFresh(cachedRates, cacheTimestamp, now)
                      THEN Val(cachedRates) ELSE FALLBACK_RATES
             rate == OrElse(RateFor(rates, toUpperCase(code)), <<1, 1>>)
         IN  IF CacheFresh(cachedRates, cacheTimestamp, now)
             THEN Set(c, [s EXCEPT !.pc = "done", !.fx.rates = @ + 1,
                            !.result = Some([amountINR |->
                                10 * MathRound(amount * rate[1], 10 * rate[2]),
                                rate |-> rate])])
             ELSE Set(c, [s EXCEPT !.pc = "fetch", !.nowRead = now,
                            !.fx.rates = @ + 1, !.fx.fetch = @ + 1])
    /\ UNCHANGED <<store, syncRuns, cachedRates, cacheTimestamp, now>>

\* convertToINR(amount, currency) is called on its own.  The base currency
\* returns at once; any other code calls getExchangeRates, which reads the
\* clock and the cache and either returns the cached table or starts a fetch
ConvertCall(c, amounts, codes) ==
    /\ calls[c].pc = "idle"
    /\ \E amount \in amounts, code \in codes :
         LET s == [calls[c] EXCEPT !.kind = "convert",
                      !.arg = Some([amount |-> amount, currency |-> code])]
         IN  IF toUpperCase(code) = "INR"
             THEN Set(c, [s EXCEPT !.pc = "done",
                            !.result = Some(convertToINR(amount, code, FALLBACK_RATES))])
             ELSE IF CacheFresh(cachedRates, cacheTimestamp, now)
             THEN Set(c, [s EXCEPT !.pc = "done", !.fx.rates = @ + 1,
                            !.result = Some(convertToINR(amount, code, Val(cachedRates)))])
             ELSE Set(c, [s EXCEPT !.pc = "fetch", !.nowRead = now,
                            !.fx.rates = @ + 1, !.fx.fetch = @ + 1])
    /\ UNCHANGED <<store, syncRuns, cachedRates, cacheTimestamp, now>>

\* convertToINR on its own: fetchExchangeRates resolves, the cache is
\* written and the conversion returns
ConvertFetchDone(c) ==
    /\ calls[c].pc = "fetch"
    /\ calls[c].kind = "convert"
    /\ \E result \in FetchResults :
         LET rates == fetchExchangeRates(result)
             s == calls[c]
         IN  /\ cachedRates' = Some(rates)
             /\ cacheTimestamp' = s.nowRead
             /\ Set(c, [s EXCEPT !.pc = "done", !.fills = @ \cup {s.nowRead},
                            !.fetched = Some(result),
                            !.result = Some(convertToINR(Val(s.arg).amount,
                                                Val(s.arg).currency, rates))])
    /\ UNCHANGED <<store, syncRuns, now>>

\* The caller of convertToINR has its result; the next call can come
ConvertReturn(c) ==
    /\ calls[c].pc = "done"
    /\ calls[c].kind = "convert"
    /\ Set(c, [IdleCall EXCEPT !.fills = calls[c].fills])
    /\ UNCHANGED <<store, syncRuns, cachedRates, cacheTimestamp, now>>

Ingest(c, keys, batches, answers) ==
    \/ Receive(c, keys, batches)
    \/ GetUser(c)
    \/ GetCategories(c)
    \/ OracleFails(c)
    \/ OracleAnswers(c, answers)
    \/ FetchDone(c)
    \/ InsertDone(c)
    \/ SyncRunDone(c)

Import(c, keys, rowLists) ==
    \/ ReceiveImport(c, keys, rowLists)
    \/ ImportCategories(c)
    \/ InsertRowDone(c)

\* One request, of either kind, over the full input sets
Next ==
    \/ Ingest(1, ApiKeys, Batches, Answers)
    \/ Import(1, ApiKeys, RowLists)

Spec == Init /\ [][Next]_vars

\* Two ingest requests in any interleaving, over the scenario inputs
NextRace == \E c \in Calls : Ingest(c, RaceKeys, RaceBatches, RaceAnswers)

SpecRace == Init /\ [][NextRace]_vars

\* One import request over account descriptors, times and a long row list
NextImport ==
    \/ GetUser(1)
    \/ Import(1, ImportKeys, ImportRowLists)

SpecImport == Init /\ [][NextImport]_vars

\* Two requests of either kind in any interleaving, over the scenario inputs
NextStore ==
    \/ \E c \in Calls : Ingest(c, StoreKeys, StoreBatches, StoreAnswers)
    \/ \E c \in Calls : Import(c, StoreKeys, StoreRowLists)

SpecStore == Init /\ [][NextStore]_vars

\* Calls of convertToINR, two at a time in any interleaving, while time
\* passes
NextConvert ==
    \/ Tick
    \/ \E c \in Calls : ConvertCall(c, ConvertAmounts, ConvertCodes)
    \/ \E c \in Calls : ConvertFetchDone(c)
    \/ \E c \in Calls : ConvertReturn(c)

SpecConvert == Init /\ [][NextConvert]_vars

(***************************************************************************)
(* Properties                                                              *)
(***************************************************************************)
Tally(details, status) ==
    Cardinality({k \in 1..Len(details) : details[k].status = status})

Outcomes(c, outcome) ==
    Cardinality({k \in 1..Len(calls[c].log) : calls[c].log[k].outcome = outcome})

\* the request was answered with the given status
Answered(c, kind, http) ==
    /\ calls[c].kind = kind
    /\ IsSome(calls[c].response)
    /\ Val(calls[c].response).http = http

\* rows of the table stored under a dedup key
RowsWithKey(table, user, id) ==
    LET rows == {r \in BagToSet(table) : r.user_id = user /\ r.sms_id = Some(id)}
    IN  IF rows = {} THEN 0
        ELSE IF Cardinality(rows) = 1 THEN CopiesIn(CHOOSE r \in rows : TRUE, table)
        ELSE 2

\* C1: every ingest request answered with a result reports counts with
\* inserted + skipped + errors = total, and total is the number of messages
\* of the batch.
Conservation ==
    \A c \in Calls :
        Answered(c, "ingest", 200) =>
            LET r == Val(calls[c].response)
            IN  /\ r.inserted + r.skipped + r.errors = r.total
                /\ r.total = Len(calls[c].messages)

ConservationWitness ==
    \E c \in Calls :
        /\ Answered(c, "ingest", 200)
        /\ Val(calls[c].response).inserted = 1
        /\ Val(calls[c].response).skipped = 1

\* C2: when a message is ingested whose (user, sms_id) is already stored,
\* the write leaves the table as it was, with exactly one row under that
\* key, and unless the table fails for another reason the message is
\* reported "inserted" and the error count stays as it was.
ReplayIsIdempotent ==
    [][\A c \in Calls :
          ( /\ calls[c].kind = "ingest"
            /\ calls[c].pc = "insert"
            /\ Len(calls'[c].log) = Len(calls[c].log) + 1
            /\ KeyTaken(store, Val(calls[c].pending)) )
          => LET e == calls'[c].log[Len(calls'[c].log)]
                 txn == Val(calls[c].pending)
             IN  /\ store' = store
                 /\ RowsWithKey(store', txn.user_id, Val(txn.sms_id)) = 1
                 /\ e.outcome # "error" =>
                      /\ calls'[c].details[e.at].status = "inserted"
                      /\ calls'[c].errors = calls[c].errors
                      /\ calls'[c].inserted = calls[c].inserted + 1]_vars

\* the second request replays id 1 with another body after the first stored
\* it: reported inserted, one row, still the first request's
ReplayWitness ==
    /\ calls[1].messages = <<MsgA>> /\ calls[2].messages = <<MsgB>>
    /\ calls[1].pc = "done" /\ calls[2].pc = "done"
    /\ Len(calls[1].log) = 1 /\ ~calls[1].log[1].taken
    /\ Len(calls[2].log) = 1 /\ calls[2].log[1].taken /\ ~calls[2].log[1].raced
    /\ Val(calls[2].response).inserted = 1 /\ Val(calls[2].response).errors = 0
    /\ RowsWithKey(store, "u1", 1) = 1
    /\ \A r \in BagToSet(store) : r.raw_sms = Some(MsgA.body)

\* C3: under every interleaving of two ingest requests, the table never
\* holds two rows with one (user_id, sms_id), and a write that the table did
\* not fail for another reason is reported "inserted", with a single row
\* under its key.
RaceKeepsOneRow ==
    /\ \A r \in BagToSet(store) :
          IsSome(r.sms_id) => RowsWithKey(store, r.user_id, Val(r.sms_id)) = 1
    /\ \A c \in Calls : \A k \in 1..Len(calls[c].log) :
          LET e == calls[c].log[k]
              d == calls[c].details[e.at]
          IN  e.outcome # "error" =>
                /\ d.status = "inserted"
                /\ RowsWithKey(store, Val(calls[c].user), d.sms_id) = 1

\* both requests wrote id 1 of user u1 while the other's write was in flight
RaceWitness ==
    /\ calls[1].pc = "done" /\ calls[2].pc = "done"
    /\ calls[1].user = calls[2].user
    /\ Len(calls[1].log) = 1 /\ calls[1].log[1].raced
    /\ Len(calls[2].log) = 1 /\ calls[2].log[1].taken
    /\ calls[1].details[calls[1].log[1].at].sms_id = 1
    /\ calls[2].details[calls[2].log[1].at].sms_id = 1
    /\ Val(calls[1].response).errors = 0 /\ Val(calls[2].response).errors = 0
    /\ RowsWithKey(store, "u1", 1) = 1

\* C4: a request, ingest or import, whose api key resolves to no user is
\* answered 401 and has issued no write to transactions, no write to
\* sync_runs, no model call and no rate fetch; both tables are empty.
UnknownKeyWritesNothing ==
    \A c \in Calls :
        /\ ( /\ calls[c].pc \notin {"idle", "auth"}
             /\ calls[c].api_key # ""
             /\ calls[c].api_key \notin DOMAIN Profiles )
           => Val(calls[c].response).http = 401
        /\ (IsSome(calls[c].response) /\ Val(calls[c].response).http = 401)
           => /\ calls[c].pc = "done"
              /\ ~Val(calls[c].response).success
              /\ calls[c].fx = NoEffects
              /\ store = EmptyBag
              /\ syncRuns = {}

UnknownKeyWitness ==
    \E c \in Calls :
        /\ Answered(c, "axio", 401)
        /\ calls[c].api_key = "nokey"
        /\ Len(calls[c].rows) = MaxBatch
        /\ \A k \in 1..Len(calls[c].rows) : parseAmount(calls[c].rows[k].amount) > 0

\* C5: when the model call throws, the request is answered 500 and it has
\* issued no write to transactions; the table is unchanged.
OracleFailureInsertsNothing ==
    \A c \in Calls :
        calls[c].fx.threw =>
            /\ calls[c].pc = "done"
            /\ Val(calls[c].response).http = 500
            /\ ~Val(calls[c].response).success
            /\ calls[c].fx.txn = 0
            /\ calls[c].details = <<>>
            /\ store = EmptyBag

OracleFailureWitness ==
    \E c \in Calls :
        /\ calls[c].fx.threw
        /\ Answered(c, "ingest", 500)
        /\ Len(calls[c].messages) = MaxBatch

\* the model returned, for message k, a candidate with is_transaction true
\* and both amount and direction
HasTransaction(c, k) ==
    LET found == parsedMapGet(calls[c].parsed, calls[c].messages[k].id)
    IN  /\ IsSome(found)
        /\ Val(found).is_transaction
        /\ IsSome(Val(found).amount)
        /\ IsSome(Val(found).direction)

\* C6: a write to transactions is attempted for a message exactly when the
\* model returned a candidate with the message's sms_id that has
\* is_transaction true and both amount and direction; every other message
\* is reported "skipped", counted in skipped, and causes no write.
InsertIffTransaction ==
    \A c \in Calls :
        calls[c].kind = "ingest" =>
            LET done == 1..Len(calls[c].details)
            IN  /\ \A k \in done :
                      /\ calls[c].details[k].status = "skipped" <=> ~HasTransaction(c, k)
                      /\ calls[c].details[k].status \in {"inserted", "error"}
                            <=> HasTransaction(c, k)
                /\ calls[c].skipped = Cardinality({k \in done : ~HasTransaction(c, k)})
                /\ calls[c].fx.txn = Cardinality({k \in done : HasTransaction(c, k)})
                                     + (IF calls[c].pc = "insert" THEN 1 ELSE 0)
                /\ Len(calls[c].log) = Cardinality({k \in done : HasTransaction(c, k)})

\* a declined payment (is_transaction false, amount and direction given) is
\* skipped and the transaction after it is written
InsertIffTransactionWitness ==
    \E c \in Calls :
        /\ Answered(c, "ingest", 200)
        /\ Len(calls[c].details) = 2
        /\ parsedMapGet(calls[c].parsed, calls[c].messages[1].id) = Some(Declined(1))
        /\ calls[c].details[1].status = "skipped"
        /\ calls[c].details[2].status = "inserted"
        /\ calls[c].fx.txn = 1

\* C7: when the table answers a write with a uniqueness conflict (23505),
\* the message is reported "inserted" and counted in inserted, and errors
\* counts only the writes that failed for another reason.
ConflictIsSuccess ==
    \A c \in Calls :
        calls[c].kind = "ingest" =>
            /\ \A k \in 1..Len(calls[c].log) :
                  calls[c].log[k].outcome = "23505" =>
                      /\ calls[c].details[calls[c].log[k].at].status = "inserted"
                      /\ calls[c].details[calls[c].log[k].at].reason = None
            /\ calls[c].inserted = Outcomes(c, "ok") + Outcomes(c, "23505")
            /\ calls[c].errors = Outcomes(c, "error")

ConflictWitness ==
    \E c \in Calls :
        /\ Answered(c, "ingest", 200)
        /\ calls[c].log # <<>>
        /\ calls[c].log[Len(calls[c].log)].outcome = "23505"
        /\ Val(calls[c].response).inserted = 2
        /\ Val(calls[c].response).errors = 0

\* C8: a write that fails for a reason other than the conflict gives its
\* message the outcome "error" with the table's message, adds one to errors,
\* and the rest of the batch is processed as it would have been: every
\* message gets its detail entry, and two transactions of which the second
\* is rejected are answered inserted 1, skipped 0, errors 1, total 2.
WriteFailureIsIsolated ==
    \A c \in Calls :
        calls[c].kind = "ingest" =>
            /\ \A k \in 1..Len(calls[c].log) :
                  calls[c].log[k].outcome = "error" =>
                      /\ calls[c].details[calls[c].log[k].at].status = "error"
                      /\ calls[c].details[calls[c].log[k].at].reason = Some("db error")
            /\ Tally(calls[c].details, "error") = Outcomes(c, "error")
            /\ calls[c].errors = Tally(calls[c].details, "error")
            /\ calls[c].pc \in {"syncwait", "done"} /\ ~calls[c].fx.threw
                  /\ IsSome(calls[c].user)
                  => Len(calls[c].details) = Len(calls[c].messages)
            /\ ( /\ Answered(c, "ingest", 200)
                 /\ Len(calls[c].messages) = 2
                 /\ Len(calls[c].log) = 2
                 /\ calls[c].log[1].outcome = "ok"
                 /\ calls[c].log[2].outcome = "error" )
               => LET r == Val(calls[c].response)
                  IN  r.inserted = 1 /\ r.skipped = 0 /\ r.errors = 1 /\ r.total = 2

\* the first write fails, the second message is still written
WriteFailureWitness ==
    \E c \in Calls :
        /\ Answered(c, "ingest", 200)
        /\ Len(calls[c].log) = 2
        /\ calls[c].log[1].outcome = "error"
        /\ calls[c].log[2].outcome = "ok"
        /\ Val(calls[c].response).inserted = 1
        /\ Val(calls[c].response).errors = 1
        /\ BagCardinality(store) = 1

StatusFits(run) ==
    /\ run.status = "failed" <=> (run.errors > 0 /\ run.inserted = 0)
    /\ run.status = "partial" <=> (run.errors > 0 /\ run.inserted > 0)
    /\ run.status = "success" <=> run.errors = 0
    /\ run.status \in {"failed", "partial", "success"}

\* C9: the status of a sync run is "failed" exactly when errors > 0 and
\* inserted = 0, "partial" exactly when errors > 0 and inserted > 0, and
\* "success" otherwise.
RunStatusIsRight ==
    /\ \A run \in syncRuns : StatusFits(run)
    /\ \A c \in Calls : IsSome(calls[c].run) => StatusFits(Val(calls[c].run))

RunStatusWitness ==
    \E run \in syncRuns : run.status = "partial" /\ run.inserted = 1 /\ run.errors = 1

\* while the sync run write is in flight the response is already sent
ResponseBeforeSyncRun ==
    \A c \in Calls :
        calls[c].pc = "syncwait" =>
            /\ IsSome(calls[c].run)
            /\ calls[c].response =
                   Some([http |-> 200, success |-> TRUE,
                         inserted |-> calls[c].inserted, skipped |-> calls[c].skipped,
                         errors |-> calls[c].errors, total |-> Len(calls[c].messages),
                         details |-> calls[c].details])

\* C10: the response of an ingest request is sent before the sync run
\* write settles, and the write, whether it succeeds, returns an error or
\* throws, leaves that response as it was.
SyncRunNeverChangesResponse ==
    /\ []ResponseBeforeSyncRun
    /\ [][\A c \in Calls :
             IsSome(calls[c].response) => calls'[c].response = calls[c].response]_vars

\* the sync run write failed and the request stands answered with its counts
SyncRunFailureWitness ==
    \E c \in Calls :
        /\ Answered(c, "ingest", 200)
        /\ calls[c].pc = "done"
        /\ Val(calls[c].response).inserted = 1
        /\ syncRuns = {}

\* C11: every ingest request whose api key resolved to a user issues exactly
\* one insertSyncRun call for its batch: never more than one, and one by the
\* time the request is answered, whatever the model call and the writes to
\* the transactions table did.
OneSyncRunPerBatch ==
    \A c \in Calls :
        (calls[c].kind = "ingest" /\ IsSome(calls[c].user)) =>
            /\ calls[c].fx.run <= 1
            /\ IsSome(calls[c].response) => calls[c].fx.run = 1

\* C12: the details of an ingest response have one entry per message of the
\* batch, in the order of the batch: details[i].sms_id = messages[i].id.
DetailsFollowMessages ==
    \A c \in Calls :
        Answered(c, "ingest", 200) =>
            LET details == Val(calls[c].response).details
                messages == calls[c].messages
            IN  /\ Len(details) = Len(messages)
                /\ \A k \in 1..Len(messages) : details[k].sms_id = messages[k].id

\* a batch of two messages with different ids, one inserted and one skipped
DetailsFollowMessagesWitness ==
    \E c \in Calls :
        /\ Answered(c, "ingest", 200)
        /\ Len(calls[c].messages) = 2
        /\ calls[c].messages[1].id # calls[c].messages[2].id
        /\ Val(calls[c].response).details[1].status = "skipped"
        /\ Val(calls[c].response).details[2].status = "inserted"

\* C16: convertToINR(amount, code) with code the base currency "INR" in any
\* letter case returns exactly (amount, rate 1): the amount is not rounded,
\* getExchangeRates is not called (the cache is neither read nor written)
\* and no rate fetch is issued.
BaseCurrencyIsIdentity ==
    [][\A c \in Calls :
          (calls'[c].kind = "convert" /\ calls[c].pc = "idle"
              /\ toUpperCase(Val(calls'[c].arg).currency) = "INR") =>
             /\ calls'[c].pc = "done"
             /\ calls'[c].result =
                    Some([amountINR |-> Val(calls'[c].arg).amount, rate |-> <<1, 1>>])
             /\ calls'[c].fx = NoEffects
             /\ cachedRates' = cachedRates
             /\ cacheTimestamp' = cacheTimestamp]_vars

\* 1.005 "inr" was converted while the cache held a fresh table from a fetch
BaseCurrencyWitness ==
    \E c \in Calls :
        /\ calls[c].kind = "convert"
        /\ calls[c].pc = "done"
        /\ Val(calls[c].arg) = [amount |-> 1005, currency |-> "inr"]
        /\ Val(calls[c].result).amountINR = 1005
        /\ IsSome(cachedRates)
        /\ "IDR" \in DOMAIN Val(cachedRates)
        /\ now - cacheTimestamp < CACHE_DURATION_MS

\* C13: every row of the transactions table, written by the SMS path or
\* the CSV path, has amount > 0; a foreign amount whose value in rupees
\* rounds to 0.00 is not stored with amount 0.
StoredAmountsArePositive ==
    \A r \in BagToSet(store) : r.amount > 0

\* the candidate of the message request c is writing
CandidateOf(c) ==
    Val(parsedMapGet(calls[c].parsed, calls[c].messages[calls[c].i].id))

\* what the row a request is writing carries as provenance, against whether
\* its candidate counts as foreign
ProvenanceFollows(c, foreign) ==
    LET txn == CandidateOf(c)
        row == Val(calls[c].pending)
    IN  IF foreign
        THEN /\ row.original_amount = txn.amount
             /\ row.original_currency = Some(toUpperCase(Val(txn.currency)))
        ELSE /\ row.original_amount = None
             /\ row.original_currency = None

\* original_amount and original_currency are both null or both set, and
\* both null in a row of the CSV path
ProvenanceIsWhole ==
    \A r \in BagToSet(store) :
        /\ IsSome(r.original_amount) <=> IsSome(r.original_currency)
        /\ r.source = "axio" => ~IsSome(r.original_amount)

\* C14 as stated: provenance is all or nothing, null on the CSV path, and
\* on the SMS path set exactly when the candidate's currency is present and
\* differs from "INR" whatever the letter case.
ProvenanceIffCurrencyPresent ==
    /\ ProvenanceIsWhole
    /\ \A c \in Calls :
          (calls[c].kind = "ingest" /\ calls[c].pc = "insert") =>
              ProvenanceFollows(c, /\ IsSome(CandidateOf(c).currency)
                                   /\ toUpperCase(Val(CandidateOf(c).currency)) # "INR")

\* C14, amended: as stated, with a currency counting as present when it is
\* a non-empty string (the handler reads txn.currency || "INR").
ProvenanceIffCurrencyNonEmpty ==
    /\ ProvenanceIsWhole
    /\ \A c \in Calls :
          (calls[c].kind = "ingest" /\ calls[c].pc = "insert") =>
              ProvenanceFollows(c, /\ IsSome(CandidateOf(c).currency)
                                   /\ Val(CandidateOf(c).currency) # ""
                                   /\ toUpperCase(Val(CandidateOf(c).currency)) # "INR")

\* the table holds a foreign row with its provenance while another request,
\* past its "inr" candidate, writes the row of a "" candidate without any
ProvenanceWitness ==
    /\ \E r \in BagToSet(store) :
          /\ r.source = "sms"
          /\ r.original_currency = Some("USD")
          /\ r.original_amount = Some(500)
    /\ \E c \in Calls :
          /\ calls[c].kind = "ingest"
          /\ calls[c].pc = "insert"
          /\ calls[c].i = 2
          /\ calls[c].parsed[1].currency = Some("inr")
          /\ CandidateOf(c).currency = Some("")
          /\ Val(calls[c].pending).original_currency = None

\* C15: in every row of the transactions table, from either path,
\* is_expense is true only with direction debit and is_income only with
\* direction credit, so the two are never both true.
FlagsFollowDirection ==
    \A r \in BagToSet(store) :
        /\ r.is_expense => r.direction = "debit"
        /\ r.is_income => r.direction = "credit"

\* C20: importing the same rows for the same user twice leaves the table as
\* importing them once does: once both imports are answered, no row of
\* theirs is stored more than once.
ImportIsIdempotent ==
    (\A c \in Calls : Answered(c, "axio", 200)
        /\ calls[c].api_key = calls[1].api_key
        /\ calls[c].rows = calls[1].rows) =>
        \A r \in BagToSet(store) : r.source = "axio" => CopiesIn(r, store) = 1

\* the timestamps refreshes have written to the cache so far
Fills == UNION {calls[d].fills : d \in Calls}

\* C17: once the cache has been filled with timestamp t, a conversion
\* requested before t + 1 hour is served without a rate fetch: a step that
\* issues a fetch finds the cache empty or every fill at least an hour old.
FetchOnlyWhenCacheOld ==
    [][\A c \in Calls :
          calls'[c].fx.fetch > calls[c].fx.fetch =>
             \/ cachedRates = None
             \/ \A t \in Fills : now - t >= CACHE_DURATION_MS]_vars

\* C18: a rate fetch that fails does not make the conversion fail.  When a
\* request's fetch resolves, the conversion returns a result and the
\* message goes on to its insertTransaction call with that amount; after a
\* failed fetch (the cache then holds the fallback table) the result is the
\* amount at the fallback rate of the currency, and for a currency in
\* neither the fetched nor the fallback table it is the amount, rate 1.
FailedFetchStillConverts ==
    [][\A c \in Calls :
          (calls[c].kind = "ingest" /\ calls[c].pc = "fetch"
              /\ calls'[c] # calls[c]) =>
             LET amount == Val(CandidateOf(c).amount)
                 cu == toUpperCase(Val(CandidateOf(c).currency))
                 failed == cachedRates' = Some(FALLBACK_RATES)
                 fallback == FALLBACK_RATES[cu]
             IN  /\ calls'[c].pc = "insert"
                 /\ calls'[c].fx.txn = calls[c].fx.txn + 1
                 /\ IsSome(calls'[c].result)
                 /\ Val(calls'[c].pending).amount = Val(calls'[c].result).amountINR
                 /\ (failed /\ cu \in DOMAIN FALLBACK_RATES) =>
                        Val(calls'[c].result) =
                            [amountINR |->
                                 10 * MathRound(amount * fallback[1], 10 * fallback[2]),
                             rate |-> fallback]
                 /\ (cu \notin DOMAIN Val(cachedRates')
                        /\ cu \notin DOMAIN FALLBACK_RATES) =>
                        Val(calls'[c].result) =
                            [amountINR |-> amount, rate |-> <<1, 1>>]]_vars

\* after failed fetches one request writes 0.50 USD as 41.50 rupees and the
\* other 0.50 IDR, a currency of neither table, as 0.50
FailedFetchWitness ==
    /\ cachedRates = Some(FALLBACK_RATES)
    /\ \E c, d \in Calls :
          /\ calls[c].pc = "insert" /\ calls[d].pc = "insert"
          /\ calls[c].fx.fetch = 1 /\ calls[d].fx.fetch = 1
          /\ CandidateOf(c).currency = Some("usd")
          /\ Val(calls[c].pending).amount = 41500
          /\ CandidateOf(d).currency = Some("IDR")
          /\ Val(calls[d].pending).amount = 500
          /\ Val(calls[d].result).rate = <<1, 1>>

\* C19: while another call's refresh of the cache is in flight, a
\* conversion of a foreign amount is served from the rates the cache holds,
\* at once: it waits for no fetch.
StaleServedDuringRefresh ==
    [][\A c \in Calls :
          (/\ calls[c].pc = "idle"
           /\ calls'[c].kind = "convert"
           /\ toUpperCase(Val(calls'[c].arg).currency) # "INR"
           /\ IsSome(cachedRates)
           /\ \E d \in Calls \ {c} : calls[d].pc = "fetch") =>
             /\ calls'[c].pc = "done"
             /\ calls'[c].fx.fetch = 0
             /\ calls'[c].result =
                    Some(convertToINR(Val(calls'[c].arg).amount,
                                      Val(calls'[c].arg).currency, Val(cachedRates)))]_vars

\* amount strings that are empty, not a number, or zero
WorthlessAmounts ==
    {Chars("", "", "", ""), Chars("a", "b", "", ""), Chars("0", ".", "0", "")}

\* the rows of an import request the loop has passed with such an amount
WorthlessRows(c) ==
    {k \in 1..(calls[c].i - 1) : calls[c].rows[k].amount \in WorthlessAmounts}

\* C21: in a CSV import a row whose amount string is empty, unparseable or
\* zero is counted as skipped and no insert is issued for it; no row is
\* written, or stored, with amount <= 0.
WorthlessRowsAreSkipped ==
    /\ \A r \in BagToSet(store) : r.source = "axio" => r.amount > 0
    /\ \A c \in Calls :
          calls[c].kind = "axio" =>
              /\ calls[c].skipped = Cardinality(WorthlessRows(c))
              /\ calls[c].fx.txn + calls[c].skipped =
                     IF calls[c].pc = "insert" THEN calls[c].i ELSE calls[c].i - 1
              /\ calls[c].pc = "insert" =>
                     /\ Val(calls[c].pending).amount > 0
                     /\ calls[c].rows[calls[c].i].amount \notin WorthlessAmounts

\* an import of an unparseable and a zero amount answered with two skips
WorthlessRowsWitness ==
    \E c \in Calls :
        /\ Answered(c, "axio", 200)
        /\ Len(calls[c].rows) = 2
        /\ calls[c].rows[1].amount = Chars("a", "b", "", "")
        /\ calls[c].rows[2].amount = Chars("0", ".", "0", "")
        /\ Val(calls[c].response).skipped = 2
        /\ calls[c].fx.txn = 0

\* C22: in a CSV import every row is handled on its own.  A failed insert
\* adds one to errors and the loop goes on to the next row: the rows passed
\* are the rows skipped plus the rows whose insert was answered, errors and
\* inserted count the failed and the accepted inserts, errorDetails holds the
\* first ERROR_DETAILS_CAP failures and no more while errors keeps the full
\* count, and in the response inserted + skipped + errors = total = the
\* number of rows.
RowsAreIndependent ==
    \A c \in Calls : calls[c].kind = "axio" =>
        /\ calls[c].errors = Outcomes(c, "error")
        /\ calls[c].inserted = Outcomes(c, "ok")
        /\ Len(calls[c].log) + calls[c].skipped = calls[c].i - 1
        /\ Len(calls[c].errorDetails) <= ERROR_DETAILS_CAP
        /\ Len(calls[c].errorDetails) =
              IF calls[c].errors < ERROR_DETAILS_CAP THEN calls[c].errors
              ELSE ERROR_DETAILS_CAP
        /\ Answered(c, "axio", 200) =>
              LET r == Val(calls[c].response)
              IN  /\ r.total = Len(calls[c].rows)
                  /\ r.inserted + r.skipped + r.errors = r.total
                  /\ r.errors = Outcomes(c, "error")
                  /\ r.inserted = Outcomes(c, "ok")
                  /\ r.errorDetails = calls[c].errorDetails
                  /\ Len(r.errorDetails) <= ERROR_DETAILS_CAP

\* thirteen rows, one of them skipped: eleven inserts fail, the last one is
\* accepted after them; ten failures are listed and eleven counted
RowsAreIndependentWitness ==
    \E c \in Calls :
        /\ Answered(c, "axio", 200)
        /\ calls[c].rows = LongRowList
        /\ Val(calls[c].response).errors = ERROR_DETAILS_CAP + 1
        /\ Len(Val(calls[c].response).errorDetails) = ERROR_DETAILS_CAP
        /\ Val(calls[c].response).inserted = 1
        /\ Val(calls[c].response).skipped = 1
        /\ calls[c].log[Len(calls[c].log)].outcome = "ok"

\* C23: an ingest request with an empty message list is rejected at the
\* schema: the only answer it gets is the 400, it never reaches the user
\* lookup, the categories, the model call or insertSyncRun, and no sync run
\* with total_messages = 0 is ever recorded.
EmptyBatchIsRejected ==
    /\ \A c \in Calls :
          (calls[c].kind = "ingest" /\ Len(calls[c].messages) = 0) =>
              /\ calls[c].pc = "done"
              /\ ~IsSome(calls[c].user)
              /\ ~IsSome(calls[c].run)
              /\ calls[c].fx.run = 0
              /\ Val(calls[c].response).http = 400
    /\ \A r \in syncRuns : r.total_messages > 0

\* the categories query of the request failed (the table itself is not empty)
CategoriesFailed(c) ==
    /\ IsSome(calls[c].user)
    /\ calls[c].pc \notin {"idle", "auth", "cats"}
    /\ calls[c].categories = <<>>

\* C24: an ingest request during which a call to the store or to the model
\* failed (the categories query, parseAndCategorize, a write to the
\* transactions table; a failed profile lookup leaves no user) is answered
\* with a failure: an error status, or a 200 whose errors count is positive.
\* It is never answered as a run without failures is.
FailuresAreReported ==
    \A c \in Calls :
        (calls[c].kind = "ingest" /\ IsSome(calls[c].response)) =>
            LET r == Val(calls[c].response)
                failed == \/ ~IsSome(calls[c].user)
                          \/ CategoriesFailed(c)
                          \/ calls[c].fx.threw
                          \/ Outcomes(c, "error") > 0
            IN  failed => (r.http # 200 \/ r.errors > 0)

\* column values that count as the affirmative token: yes in any letter
\* case, with or without blanks around it
AffirmativeTokens == {"Yes", " Yes", "YES"}

\* C25: the flags of a row being written.  On the SMS path a debit gets
\* is_expense as the model gave it, true when the model gave none, and
\* is_income false; a credit gets is_income as the model gave it, true when
\* the model gave none, and is_expense false.  On the CSV path each flag is
\* true exactly when its own column holds the affirmative token, whatever
\* the direction.
FlagsAreDerived ==
    \A c \in Calls : calls[c].pc = "insert" =>
        LET p == Val(calls[c].pending)
        IN  /\ calls[c].kind = "ingest" =>
                LET txn == CandidateOf(c)
                IN  /\ txn.direction = Some("debit") =>
                          /\ p.is_expense = IF IsSome(txn.is_expense)
                                            THEN Val(txn.is_expense) ELSE TRUE
                          /\ p.is_income = FALSE
                    /\ txn.direction = Some("credit") =>
                          /\ p.is_income = IF IsSome(txn.is_income)
                                           THEN Val(txn.is_income) ELSE TRUE
                          /\ p.is_expense = FALSE
            /\ calls[c].kind = "axio" =>
                LET row == calls[c].rows[calls[c].i]
                IN  /\ p.is_expense = (row.expense \in AffirmativeTokens)
                    /\ p.is_income = (row.income \in AffirmativeTokens)

\* a debit the model flagged as income is stored with both flags false, the
\* unflagged credit after it is being written as income, and a CSV row with
\* expense "'-" and income "YES" is being written as income only
FlagsAreDerivedWitness ==
    /\ \E r \in BagToSet(store) :
          /\ r.sms_id = Some(1)
          /\ r.direction = "debit"
          /\ ~r.is_expense
          /\ ~r.is_income
    /\ \E c, d \in Calls :
          /\ calls[c].kind = "ingest"
          /\ calls[c].pc = "insert"
          /\ calls[c].parsed = <<DebitFlagged(1), CreditPlain(2)>>
          /\ calls[c].i = 2
          /\ Val(calls[c].pending).is_income
          /\ ~Val(calls[c].pending).is_expense
          /\ calls[d].kind = "axio"
          /\ calls[d].pc = "insert"
          /\ calls[d].i = 3
          /\ calls[d].rows[3].expense = "'-"
          /\ calls[d].rows[3].income = "YES"
          /\ Val(calls[d].pending).is_income
          /\ ~Val(calls[d].pending).is_expense

\* what each account descriptor of the model is to give: the first rule that
\* matches in the order cash, wallet brand, credit card, debit card, bank
\* account, none
NoAccount == [payment_method |-> None, account_last4 |-> None, bank_name |-> None]
OtherAccount == [NoAccount EXCEPT !.payment_method = Some("other")]
ExpectedAccount(account) ==
    CASE account = HdfcCredit5487 ->
           [payment_method |-> Some("card"), account_last4 |-> Some(<<"5", "4", "8", "7">>),
            bank_name |-> Some(<<"H", "D", "F", "C", " ", "B", "a", "n", "k">>)]
      [] account = Kotak3760 ->
           [payment_method |-> Some("upi"), account_last4 |-> Some(<<"3", "7", "6", "0">>),
            bank_name |-> Some(<<"K", "o", "t", "a", "k", " ", "B", "a", "n", "k">>)]
      [] account = KotakDebit8641 ->
           [payment_method |-> Some("card"), account_last4 |-> Some(<<"8", "6", "4", "1">>),
            bank_name |-> Some(<<"K", "o", "t", "a", "k", " ", "B", "a", "n", "k">>)]
      [] account = PnbDebit1472 ->
           [payment_method |-> Some("card"), account_last4 |-> Some(<<"1", "4", "7", "2">>),
            bank_name |-> Some(<<"P", "N", "B", " ", "B", "a", "n", "k">>)]
      [] account \in {CashSpends, CashCredit1234, Cashback1234} -> OtherAccount
      [] account = AmazonPayUnknown ->
           [payment_method |-> Some("wallet"), account_last4 |-> None,
            bank_name |-> Some(<<"A", "m", "a", "z", "o", "n", " ", "P", "a", "y">>)]
      [] account \in {SimplUnknown, SimplDebit1234} ->
           [payment_method |-> Some("wallet"), account_last4 |-> None,
            bank_name |-> Some(<<"S", "i", "m", "p", "l">>)]
      [] OTHER -> NoAccount

\* C26: parseAccount returns the result of the first rule that matches, in
\* the order cash, wallet brand, "<WORD> credit <4 digits>", "<WORD> debit
\* <4 digits>", "<WORD> <4 digits>", none.  For the row being written: a
\* descriptor with "cash" in it gives (other, null, null) whatever else it
\* matches, a descriptor with credit or debit in it is never upi, a
\* descriptor no rule matches gives nulls, and every descriptor of the model
\* gives the fields listed for it.
ParseAccountOrder ==
    \A c \in Calls : (calls[c].kind = "axio" /\ calls[c].pc = "insert") =>
        LET account == calls[c].rows[calls[c].i].account
            p == Val(calls[c].pending)
            got == [payment_method |-> p.payment_method,
                    account_last4 |-> p.account_last4,
                    bank_name |-> p.bank_name]
        IN  /\ got = ExpectedAccount(account)
            /\ Includes(LowerStr(account), Cash) => got = OtherAccount
            /\ (\/ Includes(LowerStr(account), CreditWord)
                \/ Includes(LowerStr(account), DebitWord)) =>
                  got.payment_method # Some("upi")

\* "Cash credit 1234" also has the shape of a credit card descriptor and is
\* being written as (other, null, null)
ParseAccountOrderWitness ==
    \E c \in Calls :
        /\ calls[c].kind = "axio"
        /\ calls[c].pc = "insert"
        /\ calls[c].rows[calls[c].i].account = CashCredit1234
        /\ IsSome(MatchAccount(CashCredit1234, CreditWord))
        /\ Val(calls[c].pending).payment_method = Some("other")
        /\ Val(calls[c].pending).account_last4 = None
        /\ Val(calls[c].pending).bank_name = None

\* C27: a CSV row whose time is not a 12-hour "HH:MM AM/PM" value is written
\* with the timestamp of midnight of its date at +05:30, and it is written:
\* a row with such a time and a positive amount reaches its insert.
MalformedTimeIsMidnight ==
    \A c \in Calls :
        (/\ calls[c].kind = "axio"
         /\ calls[c].pc \in {"insert", "done"}
         /\ Len(calls[c].rows) = 1
         /\ calls[c].rows[1].time \in MalformedTimes
         /\ IsSome(calls[c].user)) =>
            /\ calls[c].fx.txn = 1
            /\ calls[c].pc = "insert" =>
                  Val(calls[c].pending).transacted_at =
                      [date |-> calls[c].rows[1].date, h |-> <<"0", "0">>,
                       m |-> <<"0", "0">>, offset |-> "+05:30"]

\* C28: a refresh whose fetch answered with the table "1 INR = X of F"
\* caches, for every entry with a number X > 0, the rate 1/X for F, and
\* caches nothing for an entry that is not a number or not positive; the
\* conversion that asked for the refresh uses 1/X, so that X units of F
\* come out as 1.00.
InvertedRatesAreCached ==
    [][\A c \in Calls :
          (/\ calls[c].kind = "convert"
           /\ calls[c].pc = "fetch"
           /\ calls'[c].pc = "done"
           /\ Val(calls'[c].fetched).ok) =>
              LET source == Val(calls'[c].fetched).rates
                  table == Val(cachedRates')
                  arg == Val(calls'[c].arg)
                  got == Val(calls'[c].result)
              IN  \A e \in source :
                      IF e.isNumber /\ e.n > 0
                      THEN /\ e.code \in DOMAIN table
                           /\ table[e.code][1] * e.n = table[e.code][2] * e.d
                           /\ toUpperCase(arg.currency) = e.code =>
                                 /\ got.rate[1] * e.n = got.rate[2] * e.d
                                 /\ arg.amount * e.d = 1000 * e.n =>
                                       got.amountINR = 1000
                      ELSE e.code \notin DOMAIN table]_vars

\* 190.00 IDR was converted by a refresh that fetched 1 INR = 190 IDR and
\* 3/250 USD: the result is 1.00 at rate 1/190, and the cache holds 250/3
\* rupees to the dollar
InvertedRatesWitness ==
    \E c \in Calls :
        /\ calls[c].kind = "convert"
        /\ calls[c].pc = "done"
        /\ IsSome(calls[c].fetched)
        /\ Entry("IDR", 190, 1) \in Val(calls[c].fetched).rates
        /\ Val(calls[c].arg) = [amount |-> 190000, currency |-> "IDR"]
        /\ Val(calls[c].result) = [amountINR |-> 1000, rate |-> <<1, 190>>]
        /\ IsSome(cachedRates)
        /\ "USD" \in DOMAIN Val(cachedRates)
        /\ Val(cachedRates)["USD"] = <<250, 3>>

\* C29: whatever the interleaving of conversions that find the cache
\* expired, the cache timestamp never decreases, and a refresh that
\* completes after a refresh started later than it has filled the cache
\* leaves the cache as it is: the rates of the refresh started last stay.
RefreshesAreOrdered ==
    [][/\ cacheTimestamp' >= cacheTimestamp
       /\ \A c \in Calls :
             (/\ calls[c].pc = "fetch"
              /\ calls'[c].pc # "fetch"
              /\ \E t \in Fills : t > calls[c].nowRead) =>
                 /\ cachedRates' = cachedRates
                 /\ cacheTimestamp' = cacheTimestamp]_vars

\* the refresh of call d failed, and d has not returned yet
FailedRefresh(d) ==
    /\ calls[d].kind = "convert"
    /\ calls[d].pc = "done"
    /\ IsSome(calls[d].fetched)
    /\ ~Val(calls[d].fetched).ok

\* C30: a refresh whose fetch fails writes the fallback table to the cache
\* with the time the refresh read, as a successful fetch would; and a
\* conversion of a foreign amount called less than an hour after that time
\* issues no fetch and converts at the fallback rates.
FallbackIsCached ==
    [][\A c \in Calls :
          /\ (/\ calls[c].kind = "convert"
              /\ calls[c].pc = "fetch"
              /\ calls'[c].pc = "done"
              /\ ~Val(calls'[c].fetched).ok) =>
                 /\ cachedRates' = Some(FALLBACK_RATES)
                 /\ cacheTimestamp' = calls[c].nowRead
          /\ (/\ calls[c].pc = "idle"
              /\ calls'[c].kind = "convert"
              /\ toUpperCase(Val(calls'[c].arg).currency) # "INR"
              /\ \E d \in Calls \ {c} :
                    FailedRefresh(d) /\ now - calls[d].nowRead < CACHE_DURATION_MS) =>
                 /\ calls'[c].pc = "done"
                 /\ calls'[c].fx.fetch = 0
                 /\ calls'[c].result =
                        Some(convertToINR(Val(calls'[c].arg).amount,
                                          Val(calls'[c].arg).currency, FALLBACK_RATES))]_vars

\* ids of the messages of request c
MessageIds(c) == {calls[c].messages[k].id : k \in 1..Len(calls[c].messages)}

\* candidates the model returned to request c for the id of no message
Orphans(c) ==
    {j \in 1..Len(calls[c].parsed) : calls[c].parsed[j].sms_id \notin MessageIds(c)}

\* C31: a transaction an ingest request writes carries the user its api key
\* resolved to, source "sms", and the sms_id, body and sender of the message
\* of the batch it is written for; so does every SMS row of the table.  A
\* candidate with the sms_id of no message leads to no write and to no
\* count: writes, details and counts go by the messages only.
WritesBelongToBatch ==
    /\ \A c \in Calls : calls[c].kind = "ingest" =>
          /\ calls[c].pc = "insert" =>
                LET p == Val(calls[c].pending)
                    msg == calls[c].messages[calls[c].i]
                IN  /\ calls[c].api_key \in DOMAIN Profiles
                    /\ p.user_id = Profiles[calls[c].api_key]
                    /\ p.source = "sms"
                    /\ p.sms_id = Some(msg.id)
                    /\ p.raw_sms = Some(msg.body)
                    /\ p.sms_sender = Some(msg.sender)
                    /\ Val(p.sms_id) \in MessageIds(c)
          /\ \A k \in 1..Len(calls[c].details) :
                calls[c].details[k].sms_id \in MessageIds(c)
          /\ calls[c].fx.txn + calls[c].skipped <= Len(calls[c].messages)
          /\ calls[c].inserted + calls[c].skipped + calls[c].errors
                <= Len(calls[c].messages)
    /\ \A r \in BagToSet(store) : r.source = "sms" =>
          \E c \in Calls :
              /\ calls[c].kind = "ingest"
              /\ calls[c].user = Some(r.user_id)
              /\ Val(r.sms_id) \in MessageIds(c)

\* the model answered with a transaction for id 7, the id of no message,
\* beside one for message 1: one row is stored, under id 1, and the counts
\* are inserted 1 of total 1
WritesBelongToBatchWitness ==
    \E c \in Calls :
        /\ Answered(c, "ingest", 200)
        /\ Len(calls[c].messages) = 1
        /\ Orphans(c) # {}
        /\ \E j \in Orphans(c) : calls[c].parsed[j] = DebitINR(7)
        /\ Val(calls[c].response).inserted = 1
        /\ Val(calls[c].response).total = 1
        /\ BagCardinality(store) = 1
        /\ \A r \in BagToSet(store) : r.sms_id = Some(1)

\* the last candidate the model returned to request c for an sms_id
LastCandidate(c, id) ==
    LET parsed == calls[c].parsed
        last == CHOOSE j \in 1..Len(parsed) :
                    /\ parsed[j].sms_id = id
                    /\ \A k \in (j + 1)..Len(parsed) : parsed[k].sms_id # id
    IN  parsed[last]

\* rows of the table written by the SMS path, copies counted
SmsRows ==
    BagCardinality([r \in {q \in BagToSet(store) : q.source = "sms"} |-> store[r]])

\* inserted counts of the ingest requests, added up
RECURSIVE InsertedBy(_)
InsertedBy(S) ==
    IF S = {} THEN 0
    ELSE LET c == CHOOSE c \in S : TRUE
         IN  (IF calls[c].kind = "ingest" THEN calls[c].inserted ELSE 0)
             + InsertedBy(S \ {c})

\* C32: for every message reported "inserted" the table holds a row under
\* (user, sms_id), from the report on and so when the request returns; the
\* table never holds more SMS rows than were counted as inserted, nor two
\* rows under one key.  Several messages with one sms_id are each counted
\* and reported, and of several candidates for one sms_id the last is the
\* one reported and written.
InsertedIsStored ==
    /\ SmsRows <= InsertedBy(Calls)
    /\ \A r \in BagToSet(store) :
          r.source = "sms" => RowsWithKey(store, r.user_id, Val(r.sms_id)) = 1
    /\ \A c \in Calls : calls[c].kind = "ingest" =>
          /\ Tally(calls[c].details, "inserted") = calls[c].inserted
          /\ \A k \in 1..Len(calls[c].details) :
                LET d == calls[c].details[k]
                IN  /\ d.sms_id = calls[c].messages[k].id
                    /\ d.status = "inserted" =>
                          /\ RowsWithKey(store, Val(calls[c].user), d.sms_id) = 1
                          /\ Some(Val(d.transaction).amount) =
                                 LastCandidate(c, d.sms_id).amount
                          /\ Some(Val(d.transaction).direction) =
                                 LastCandidate(c, d.sms_id).direction
          /\ calls[c].pc = "insert" =>
                Some(Val(calls[c].pending).direction) =
                    LastCandidate(c, Val(Val(calls[c].pending).sms_id)).direction

\* id 1 came twice in the batch and the model returned a debit and then a
\* credit for it: both messages are reported inserted, one row is stored,
\* and it is the credit
InsertedIsStoredWitness ==
    \E c \in Calls :
        /\ Answered(c, "ingest", 200)
        /\ calls[c].messages = <<MsgA, MsgA>>
        /\ calls[c].parsed = <<DebitINR(1), CreditUSD(1)>>
        /\ Val(calls[c].response).inserted = 2
        /\ Val(calls[c].response).details[1].status = "inserted"
        /\ Val(calls[c].response).details[2].status = "inserted"
        /\ BagCardinality(store) = 1
        /\ \A r \in BagToSet(store) : r.sms_id = Some(1) /\ r.direction = "credit"

\* the sync run carries what the response to request c carries, and the
\* messages of c as they came
RunMatchesResponse(run, c) ==
    LET r == Val(calls[c].response)
    IN  /\ r.http = 200
        /\ run.inserted = r.inserted
        /\ run.skipped = r.skipped
        /\ run.errors = r.errors
        /\ run.total_messages = r.total
        /\ run.details = r.details
        /\ run.messages = calls[c].messages
        /\ run.user_id = Val(calls[c].user)

\* C33: the sync run of an ingest batch, as handed to insertSyncRun and as
\* written to the sync_runs table, has the inserted, skipped, errors and
\* total values and the detail list of the response to that batch, and the
\* batch's messages unchanged.
SyncRunMirrorsResponse ==
    /\ \A c \in Calls :
          (calls[c].kind = "ingest" /\ IsSome(calls[c].run)) =>
              /\ IsSome(calls[c].response)
              /\ RunMatchesResponse(Val(calls[c].run), c)
    /\ \A run \in syncRuns :
          /\ Answered(run.call, "ingest", 200)
          /\ RunMatchesResponse(run, run.call)

\* a written sync run of a batch of two messages, one inserted and one
\* skipped, with both details and both messages
SyncRunMirrorsResponseWitness ==
    \E run \in syncRuns :
        /\ run.inserted = 1
        /\ run.skipped = 1
        /\ run.total_messages = 2
        /\ Len(run.details) = 2
        /\ run.messages = <<MsgC, MsgA>>
        /\ Val(calls[run.call].response).details = run.details
        /\ calls[run.call].pc = "done"

====
